---- MODULE Spec2Model ----
(***************************************************************************)
(* Background task orchestration of the DisasterAI backend:                *)
(*   TaskStore      (backend/tasks.py)  durable store with in-memory       *)
(*                                      fallback                            *)
(*   db functions   (backend/db.py)     the durable "tasks" table          *)
(*   TaskProcessor  (backend/tasks.py)  asyncio units of work, cancel      *)
(* Every store call that reaches the durable backend may raise; whether it *)
(* does is an input of the action that makes the call.                     *)
(* Real-time notifications:                                                *)
(*   ConnectionManager, WebSocketNotificationService                       *)
(*                  (backend/services/websocket_service.py)                *)
(*   websocket_endpoint (backend/routes/realtime_routes.py)                *)
(***************************************************************************)
EXTENDS Integers, Sequences, FiniteSets, TLC

\* ---------------------------------------------------------------- bounds
MaxTasks == 2          \* task ids 1..MaxTasks can be created
MaxTime == 1           \* the clock runs 0..MaxTime
MaxLimit == 1          \* list_tasks is called with limit 0..MaxLimit
MaxSockets == 2        \* websockets 1..MaxSockets can be opened
MaxPublishes == 1      \* broadcasts 1..MaxPublishes can be started
MaxInbound == 1        \* inbound client messages handled over all sockets
MaxSequential == 2     \* publishes one coroutine makes one after the other
MaxCycles == 3         \* cycles of run_periodic_updates that are followed

\* ------------------------------------------------------- program constants
PROGRESS_STARTED == 10     \* tasks.py:325
PROGRESS_PREPARED == 30    \* tasks.py:333
PROGRESS_DONE == 100       \* tasks.py:342

PENDING == "pending"
PROCESSING == "processing"
COMPLETED == "completed"
FAILED == "failed"
TaskStatus == {PENDING, PROCESSING, COMPLETED, FAILED}

CANCEL_MESSAGE == "Task cancelled by user"

\* Python's None for Optional[str] fields, and for Optional[TaskDB]
None == "None"
NoTask == [none |-> TRUE]

TaskIds == 1..MaxTasks
Times == 0..MaxTime
Requests == {"reqA"}
Results == {"resA"}
Causes == {"analysis failed"}

\* ------------------------------------------------------------------ state
VARIABLES
    use_fallback,      \* TaskStore.use_fallback
    _fallback_tasks,   \* TaskStore._fallback_tasks : task_id -> TaskDB
    tasks_table,       \* rows of the durable table "tasks" : task_id -> TaskDB
    _running_tasks,    \* TaskProcessor._running_tasks : task_id -> unit
    units,             \* the asyncio tasks created by submit_task, in order
    next_id,           \* number of task ids handed out so far (uuid4 is fresh)
    now,               \* datetime.utcnow()
    last,              \* what the most recent step did and answered
    durable_raised     \* a durable call has raised in some earlier step

VARIABLES
    active_connections,    \* ConnectionManager.active_connections, a dict in
                           \* insertion order: sequence of [client_id, websocket]
    subscribed_categories, \* ConnectionManager.subscribed_categories :
                           \* client_id -> set of categories
    websockets,            \* the WebSocket objects accepted so far, each with
                           \* its endpoint handler and what its client received
    broadcasts,            \* the calls of broadcast_to_category /
                           \* broadcast_to_all made so far, running or ended
    inbound                \* number of inbound client messages handled

VARIABLES
    periodic               \* the coroutine run_periodic_updates that run.py
                           \* starts on a thread of its own: where it is, the
                           \* cycles it has begun, the waits it has ended

taskvars == <<use_fallback, _fallback_tasks, tasks_table, _running_tasks, units,
              next_id, now, last, durable_raised>>

wsvars == <<active_connections, subscribed_categories, websockets, broadcasts,
            inbound>>

vars == <<use_fallback, _fallback_tasks, tasks_table, _running_tasks, units,
          next_id, now, last, durable_raised,
          active_connections, subscribed_categories, websockets, broadcasts,
          inbound, periodic>>

\* ------------------------------------------------------------ conversions
\* pydantic model_dump_json: the JSON text of a request or a result
model_dump_json(x) == "{" \o x \o "}"

\* AnalysisResult.model_validate(json.loads(text)); None when it raises
model_validate(text) ==
    IF \E x \in Results : model_dump_json(x) = text
    THEN CHOOSE x \in Results : model_dump_json(x) = text
    ELSE None

\* dict.get(key): the value or None
Lookup(table, task_id) ==
    IF task_id \in DOMAIN table THEN table[task_id] ELSE NoTask

Remove(table, ids) == [k \in (DOMAIN table) \ ids |-> table[k]]

\* from_request that marks a task that has not started with progress -1
from_request_unstarted(task_id, request, t) ==
    [task_id |-> task_id, status |-> PENDING, progress |-> 0 - 1,
     request_data |-> model_dump_json(request),
     result_data |-> None, error_message |-> None,
     created_at |-> t, updated_at |-> t]

\* TaskDB.from_request
from_request(task_id, request, t) ==
    [task_id |-> task_id, status |-> PENDING, progress |-> 0,
     request_data |-> model_dump_json(request),
     result_data |-> None, error_message |-> None,
     created_at |-> t, updated_at |-> t]

\* The attribute lookup task.request of process_analysis: TaskDB declares
\* id, task_id, status, progress, request_data, result_data, error_message,
\* created_at, updated_at and no attribute named request, so pydantic
\* raises AttributeError for every TaskDB.
TaskDBFields ==
    {"id", "task_id", "status", "progress", "request_data", "result_data",
     "error_message", "created_at", "updated_at"}

\* a TaskDB on which the attribute request resolves as well
HasAttr_request(name) == name \in TaskDBFields \cup {"request"}

HasAttr(name) == name \in TaskDBFields

\* ------------------------------------------------ durable backend (db.py)
\* Each function is given the table and answers the new table and its
\* return value; a call that raises leaves the table as it was.

create_task_in_db(table, task_db, t) ==
    LET row == [task_db EXCEPT !.created_at = t, !.updated_at = t]
    IN  [table |-> (task_db.task_id :> row) @@ table, ret |-> row]

get_task_from_db(table, task_id) ==
    [table |-> table, ret |-> Lookup(table, task_id)]

\* an update that stamps created_at along with updated_at
ApplyFields_restamp(task, fields, t) ==
    [task EXCEPT
        !.status = IF "status" \in DOMAIN fields THEN fields.status ELSE @,
        !.progress = IF "progress" \in DOMAIN fields THEN fields.progress ELSE @,
        !.result_data = IF "result_data" \in DOMAIN fields
                        THEN fields.result_data ELSE @,
        !.error_message = IF "error" \in DOMAIN fields THEN fields.error ELSE @,
        !.created_at = t,
        !.updated_at = t]

\* fields is the record of the keyword arguments that are not None
ApplyFields(task, fields, t) ==
    [task EXCEPT
        !.status = IF "status" \in DOMAIN fields THEN fields.status ELSE @,
        !.progress = IF "progress" \in DOMAIN fields THEN fields.progress ELSE @,
        !.result_data = IF "result_data" \in DOMAIN fields
                        THEN fields.result_data ELSE @,
        !.error_message = IF "error" \in DOMAIN fields THEN fields.error ELSE @,
        !.updated_at = t]

update_task_in_db(table, task_id, fields, t) ==
    IF task_id \notin DOMAIN table
    THEN [table |-> table, ret |-> NoTask]
    ELSE LET row == ApplyFields(table[task_id], fields, t)
         IN  [table |-> [table EXCEPT ![task_id] = row], ret |-> row]

delete_task_from_db(table, task_id) ==
    IF task_id \notin DOMAIN table
    THEN [table |-> table, ret |-> FALSE]
    ELSE [table |-> Remove(table, {task_id}), ret |-> TRUE]

OlderThan(table, cutoff) == {k \in DOMAIN table : table[k].created_at < cutoff}

cleanup_old_tasks_from_db(table, max_age, t) ==
    LET gone == OlderThan(table, t - max_age)
    IN  [table |-> Remove(table, gone), ret |-> Cardinality(gone)]


\* rows in base order, stably sorted by created_at descending (keys t..0)
RECURSIVE StableDesc(_, _, _)
StableDesc(table, base, t) ==
    IF t < 0 THEN <<>>
    ELSE SelectSeq(base, LAMBDA k : table[k].created_at = t)
         \o StableDesc(table, base, t - 1)

Take(seq, n) == SubSeq(seq, 1, IF n < Len(seq) THEN n ELSE Len(seq))

\* ORDER BY created_at DESC LIMIT limit; row_order is the order in which the
\* engine meets the rows, which decides the order of rows of equal created_at
list_tasks_from_db(table, limit, row_order) ==
    LET ids == Take(StableDesc(table, row_order, MaxTime), limit)
    IN  [table |-> table, ret |-> [i \in 1..Len(ids) |-> table[ids[i]]]]

\* ------------------------------------------------- TaskStore (tasks.py)
\* S is the store: [use_fallback, fallback, table].  Every operation answers
\*   S          the store afterwards
\*   ret        the value returned to the caller
\*   exc        TRUE when the operation raised to its caller
\*   db_called  TRUE when it called the durable backend
\*   db_raised  TRUE when that call raised
Answer(S, ret, db_called, db_raised) ==
    [S |-> S, ret |-> ret, exc |-> FALSE,
     db_called |-> db_called, db_raised |-> db_raised]

Raise(S, db_called, db_raised) ==
    [S |-> S, ret |-> None, exc |-> TRUE,
     db_called |-> db_called, db_raised |-> db_raised]

\* create_task that switches on a durable failure but forgets to keep the
\* record in memory
create_task_unsaved(S, task_id, request, t, db_raises) ==
    LET task_db == from_request(task_id, request, t)
    IN  IF ~db_raises
        THEN LET created == create_task_in_db(S.table, task_db, t)
             IN  Answer([S EXCEPT !.table = created.table],
                        created.ret.task_id, TRUE, FALSE)
        ELSE Answer([S EXCEPT !.use_fallback = TRUE], task_id, TRUE, TRUE)

\* create_task that keeps a copy in memory of every record it stores durably
create_task_mirrored(S, task_id, request, t, db_raises) ==
    LET task_db == from_request(task_id, request, t)
    IN  IF ~db_raises
        THEN LET created == create_task_in_db(S.table, task_db, t)
             IN  Answer([S EXCEPT !.table = created.table,
                                  !.fallback = (task_id :> task_db) @@ @],
                        created.ret.task_id, TRUE, FALSE)
        ELSE Answer([S EXCEPT !.use_fallback = TRUE,
                              !.fallback = (task_id :> task_db) @@ @],
                    task_id, TRUE, TRUE)

\* TaskStore.create_task: always tries the durable backend first, whatever
\* use_fallback says
create_task(S, task_id, request, t, db_raises) ==
    LET task_db == from_request(task_id, request, t)
    IN  IF ~db_raises
        THEN LET created == create_task_in_db(S.table, task_db, t)
             IN  Answer([S EXCEPT !.table = created.table],
                        created.ret.task_id, TRUE, FALSE)
        ELSE Answer([S EXCEPT !.use_fallback = TRUE,
                              !.fallback = (task_id :> task_db) @@ @],
                    task_id, TRUE, TRUE)

\* get_task without its try/except: the durable error reaches the caller
get_task_unguarded(S, task_id, db_raises) ==
    IF S.use_fallback
    THEN Answer(S, Lookup(S.fallback, task_id), FALSE, FALSE)
    ELSE IF ~db_raises
    THEN Answer(S, get_task_from_db(S.table, task_id).ret, TRUE, FALSE)
    ELSE Raise(S, TRUE, TRUE)

\* TaskStore.get_task
get_task(S, task_id, db_raises) ==
    IF S.use_fallback
    THEN Answer(S, Lookup(S.fallback, task_id), FALSE, FALSE)
    ELSE IF ~db_raises
    THEN Answer(S, get_task_from_db(S.table, task_id).ret, TRUE, FALSE)
    ELSE Answer(S, Lookup(S.fallback, task_id), TRUE, TRUE)

\* the in-memory branch of update_task (lines 88-102 and 121-135)
UpdateFallback(S, task_id, fields, t, db_called, db_raised) ==
    IF Lookup(S.fallback, task_id) = NoTask
    THEN Answer(S, FALSE, db_called, db_raised)
    ELSE Answer([S EXCEPT !.fallback[task_id] = ApplyFields(@, fields, t)],
                TRUE, db_called, db_raised)

\* TaskStore.update_task; fields holds the arguments that are not None, the
\* result already being result.model_dump_json()
update_task(S, task_id, fields, t, db_raises) ==
    IF S.use_fallback
    THEN UpdateFallback(S, task_id, fields, t, FALSE, FALSE)
    ELSE IF ~db_raises
    THEN LET updated == update_task_in_db(S.table, task_id, fields, t)
         IN  Answer([S EXCEPT !.table = updated.table],
                    updated.ret # NoTask, TRUE, FALSE)
    ELSE UpdateFallback(S, task_id, fields, t, TRUE, TRUE)

\* the in-memory branch of delete_task
DeleteFallback(S, task_id, db_called, db_raised) ==
    IF task_id \in DOMAIN S.fallback
    THEN Answer([S EXCEPT !.fallback = Remove(@, {task_id})],
                TRUE, db_called, db_raised)
    ELSE Answer(S, FALSE, db_called, db_raised)

\* TaskStore.delete_task
delete_task(S, task_id, db_raises) ==
    IF S.use_fallback
    THEN DeleteFallback(S, task_id, FALSE, FALSE)
    ELSE IF ~db_raises
    THEN LET deleted == delete_task_from_db(S.table, task_id)
         IN  Answer([S EXCEPT !.table = deleted.table], deleted.ret, TRUE, FALSE)
    ELSE DeleteFallback(S, task_id, TRUE, TRUE)

\* the TaskInfo built from a TaskDB (get_task_info, list_tasks)
TaskInfoOf(task) ==
    [task_id |-> task.task_id, status |-> task.status,
     progress |-> task.progress,
     created_at |-> task.created_at, updated_at |-> task.updated_at,
     result |-> IF task.result_data # None
                THEN model_validate(task.result_data) ELSE None,
     error |-> task.error_message]

\* TaskStore.get_task_info
get_task_info(S, task_id, db_raises) ==
    LET got == get_task(S, task_id, db_raises)
    IN  IF got.exc \/ got.ret = NoTask THEN got
        ELSE [got EXCEPT !.ret = TaskInfoOf(got.ret)]

\* dict order of _fallback_tasks: insertion order, which is the order of the
\* ids since every id is inserted once
RECURSIVE Ascending(_)
Ascending(ids) ==
    IF ids = {} THEN <<>>
    ELSE LET m == CHOOSE k \in ids : \A j \in ids : k <= j
         IN  <<m>> \o Ascending(ids \ {m})

\* the in-memory branch of list_tasks: sorted(..., reverse=True)[:limit]
ListFallback(S, limit, db_called, db_raised) ==
    LET ids == Take(StableDesc(S.fallback, Ascending(DOMAIN S.fallback),
                               MaxTime), limit)
    IN  Answer(S, [i \in 1..Len(ids) |-> TaskInfoOf(S.fallback[ids[i]])],
               db_called, db_raised)

\* TaskStore.list_tasks
list_tasks(S, limit, db_raises, row_order) ==
    IF S.use_fallback
    THEN ListFallback(S, limit, FALSE, FALSE)
    ELSE IF ~db_raises
    THEN LET rows == list_tasks_from_db(S.table, limit, row_order).ret
         IN  Answer(S, [i \in 1..Len(rows) |-> TaskInfoOf(rows[i])],
                    TRUE, FALSE)
    ELSE ListFallback(S, limit, TRUE, TRUE)

\* the in-memory branch of cleanup_old_tasks
CleanupFallback(S, max_age, t, db_called, db_raised) ==
    LET to_delete == OlderThan(S.fallback, t - max_age)
    IN  Answer([S EXCEPT !.fallback = Remove(@, to_delete)],
               Cardinality(to_delete), db_called, db_raised)

\* TaskStore.cleanup_old_tasks
cleanup_old_tasks(S, max_age, t, db_raises) ==
    IF S.use_fallback
    THEN CleanupFallback(S, max_age, t, FALSE, FALSE)
    ELSE IF ~db_raises
    THEN LET cleaned == cleanup_old_tasks_from_db(S.table, max_age, t)
         IN  Answer([S EXCEPT !.table = cleaned.table], cleaned.ret, TRUE, FALSE)
    ELSE CleanupFallback(S, max_age, t, TRUE, TRUE)


\* --------------------------------------------- TaskProcessor (tasks.py)
\* A unit is the asyncio task that runs process_analysis(task_id):
\*   pc = "scheduled"  created, its first step has not run
\*        "awaiting"   suspended in await service.analyze_document(...)
\*        "finished"   the coroutine has ended, the done-callback is queued
\*        "closed"     the done-callback has run
\*   must_cancel       Task.cancel() was called while it was not done
\*   outcome           "returned", "raised" (an exception left the
\*                     coroutine), "cancelled", or "none" while it runs
NewUnit(task_id) ==
    [task_id |-> task_id, pc |-> "scheduled", must_cancel |-> FALSE,
     outcome |-> "none"]

Done(unit) == unit.pc \in {"finished", "closed"}

End(unit, outcome) == [unit EXCEPT !.pc = "finished", !.outcome = outcome]

\* asyncio.Task.cancel(): no effect on a task that is done
task_cancel(unit) ==
    IF Done(unit) THEN unit ELSE [unit EXCEPT !.must_cancel = TRUE]

Step(S, unit, db_called, db_raised) ==
    [S |-> S, unit |-> unit, db_called |-> db_called, db_raised |-> db_raised]

\* process_analysis from the return of analyze_document on (lines 336-351):
\* how is "returns" with a result or "raises" with the text of the exception
AfterAnalysis(S, unit, t, how, payload, db_raises, called, raised) ==
    LET fields == IF how = "returns"
                  THEN [status |-> COMPLETED, progress |-> PROGRESS_DONE,
                        result_data |-> model_dump_json(payload)]
                  ELSE [status |-> FAILED, error |-> payload]
        upd == update_task(S, unit.task_id, fields, t, db_raises)
    IN  Step(upd.S, End(unit, IF upd.exc THEN "raised" ELSE "returned"),
             called \/ upd.db_called, raised \/ upd.db_raised)

\* process_analysis that looks at task.request without testing task first:
\* AttributeError on None
process_analysis_enter_unguarded(S, unit, db_raises) ==
    IF unit.must_cancel
    THEN [go |-> FALSE, step |-> Step(S, End(unit, "cancelled"), FALSE, FALSE)]
    ELSE LET got == get_task(S, unit.task_id, db_raises)
         IN  [go |-> FALSE,
              step |-> Step(got.S, End(unit, "raised"),
                            got.db_called, got.db_raised)]

\* process_analysis whose cancelled unit still records a failure of its own
process_analysis_enter_overwriting(S, unit, db_raises) ==
    IF unit.must_cancel
    THEN LET upd == update_task(S, unit.task_id,
                        [status |-> FAILED, error |-> "analysis failed"],
                        0, db_raises)
         IN  [go |-> FALSE,
              step |-> Step(upd.S, End(unit, "cancelled"),
                            upd.db_called, upd.db_raised)]
    ELSE [go |-> FALSE, step |-> Step(S, End(unit, "raised"), FALSE, FALSE)]

\* process_analysis, first step up to line 321: the record is fetched and its
\* request looked at.  go says whether the unit enters the try block.
process_analysis_enter(S, unit, db_raises) ==
    IF unit.must_cancel
    THEN \* Task.cancel() before the first step: the coroutine never starts
         [go |-> FALSE, step |-> Step(S, End(unit, "cancelled"), FALSE, FALSE)]
    ELSE LET got == get_task(S, unit.task_id, db_raises)
             outcome == IF got.exc THEN "raised"
                        ELSE IF got.ret = NoTask THEN "returned"
                        ELSE IF ~HasAttr("request")
                        THEN "raised"   \* AttributeError, outside the try
                        ELSE "none"
         IN  [go |-> outcome = "none",
              step |-> Step(got.S,
                            IF outcome = "none" THEN unit ELSE End(unit, outcome),
                            got.db_called, got.db_raised)]

\* process_analysis, lines 323-351, entered with the step so far.  raises[i]
\* says whether the i-th durable call raises; analysis is what
\* analyze_document does: it suspends, or returns / raises with a payload.
process_analysis_try(entered, t, raises, analysis) ==
    LET unit == entered.unit
        u1 == update_task(entered.S, unit.task_id,
                  [status |-> PROCESSING, progress |-> PROGRESS_STARTED],
                  t, raises[1])
        u2 == update_task(u1.S, unit.task_id,
                  [progress |-> PROGRESS_PREPARED], t, raises[2])
        called == entered.db_called \/ u1.db_called \/ u2.db_called
        raised == entered.db_raised \/ u1.db_raised \/ u2.db_raised
    IN  IF analysis.how = "suspends"
        THEN Step(u2.S, [unit EXCEPT !.pc = "awaiting"], called, raised)
        ELSE AfterAnalysis(u2.S, unit, t, analysis.how, analysis.payload,
                           raises[3], called, raised)

\* process_analysis resumed at line 336, in the await of analyze_document,
\* which now returns or raises
process_analysis_resume(S, unit, t, db_raises, analysis) ==
    IF unit.must_cancel
    THEN \* CancelledError is a BaseException: "except Exception" lets it pass
         Step(S, End(unit, "cancelled"), FALSE, FALSE)
    ELSE AfterAnalysis(S, unit, t, analysis.how, analysis.payload, db_raises,
                       FALSE, FALSE)

\* TaskProcessor.submit_task: a new unit, tracked under task_id
submit_task(running, us, task_id) ==
    [units |-> Append(us, NewUnit(task_id)),
     running |-> [k \in DOMAIN running \cup {task_id} |->
                    IF k = task_id THEN Len(us) + 1 ELSE running[k]]]

\* the done-callback of submit_task: _running_tasks.pop(task_id, None)
done_callback(running, task_id) == Remove(running, {task_id})

\* cancel_task that marks the record Failed without an error message
cancel_task_silent(S, running, us, task_id, t, db_raises) ==
    IF task_id \in DOMAIN running
    THEN LET upd == update_task(S, task_id, [status |-> FAILED], t, db_raises)
         IN  [S |-> upd.S,
              units |-> [us EXCEPT ![running[task_id]] = task_cancel(@)],
              ret |-> TRUE, exc |-> upd.exc,
              db_called |-> upd.db_called, db_raised |-> upd.db_raised]
    ELSE [S |-> S, units |-> us, ret |-> FALSE, exc |-> FALSE,
          db_called |-> FALSE, db_raised |-> FALSE]

\* TaskProcessor.cancel_task
cancel_task(S, running, us, task_id, t, db_raises) ==
    IF task_id \in DOMAIN running
    THEN LET upd == update_task(S, task_id,
                        [status |-> FAILED, error |-> CANCEL_MESSAGE],
                        t, db_raises)
         IN  [S |-> upd.S,
              units |-> [us EXCEPT ![running[task_id]] = task_cancel(@)],
              ret |-> TRUE, exc |-> upd.exc,
              db_called |-> upd.db_called, db_raised |-> upd.db_raised]
    ELSE [S |-> S, units |-> us, ret |-> FALSE, exc |-> FALSE,
          db_called |-> FALSE, db_raised |-> FALSE]

\* ---------------------------------------------------------------- actions
Store == [use_fallback |-> use_fallback, fallback |-> _fallback_tasks,
          table |-> tasks_table]

\* the record stored under task_id, in whichever storage holds it
Stored(S, task_id) ==
    IF task_id \in DOMAIN S.table THEN S.table[task_id]
    ELSE Lookup(S.fallback, task_id)

StatusOf(task) == IF task = NoTask THEN None ELSE task.status

SetStore(S) ==
    /\ use_fallback' = S.use_fallback
    /\ _fallback_tasks' = S.fallback
    /\ tasks_table' = S.table

\* the log entry of a step: the operation, its task id (0 when it has none),
\* what it returned (value, a record naming the kind of value), and the
\* status the record had before the step
Log(op, task_id, value, r) ==
    /\ last' = [op |-> op, id |-> task_id,
                ret |-> IF r.exc THEN [raised |-> TRUE] ELSE value,
                exc |-> r.exc,
                db_called |-> r.db_called, db_raised |-> r.db_raised,
                before |-> StatusOf(Stored(Store, task_id))]
    /\ durable_raised' = (durable_raised \/ r.db_raised)

Nothing == [none |-> TRUE]

Idle == [exc |-> FALSE, db_called |-> FALSE, db_raised |-> FALSE]

Init ==
    /\ use_fallback = FALSE
    /\ _fallback_tasks = <<>>
    /\ tasks_table = <<>>
    /\ _running_tasks = <<>>
    /\ units = <<>>
    /\ next_id = 0
    /\ now = 0
    /\ last = [op |-> "init", id |-> 0, ret |-> Nothing, exc |-> FALSE,
               db_called |-> FALSE, db_raised |-> FALSE, before |-> None]
    /\ durable_raised = FALSE
    /\ active_connections = <<>>
    /\ subscribed_categories = <<>>
    /\ websockets = <<>>
    /\ broadcasts = <<>>
    /\ inbound = 0
    /\ periodic = [pc |-> "stats", cycle |-> 1, waits |-> 0, b |-> NoTask,
                   published |-> <<>>]

\* create_analysis_task (use_celery is never passed): create, then submit
CreateAnalysisTask(request, db_raises) ==
    /\ next_id < MaxTasks
    /\ LET task_id == next_id + 1
           created == create_task(Store, task_id, request, now, db_raises)
           sub == submit_task(_running_tasks, units, created.ret)
       IN  /\ SetStore(created.S)
           /\ units' = sub.units
           /\ _running_tasks' = sub.running
           /\ next_id' = task_id
           /\ Log("create", task_id, [task_id |-> created.ret], created)
    /\ UNCHANGED now
    /\ UNCHANGED <<wsvars, periodic>>

\* get_task_status
GetTaskStatus(task_id, db_raises) ==
    /\ LET got == get_task_info(Store, task_id, db_raises)
       IN  SetStore(got.S) /\ Log("get", task_id, [task |-> got.ret], got)
    /\ UNCHANGED <<_running_tasks, units, next_id, now>>
    /\ UNCHANGED <<wsvars, periodic>>

\* cancel_analysis_task
CancelAnalysisTask(task_id, db_raises) ==
    /\ LET c == cancel_task(Store, _running_tasks, units, task_id, now,
                            db_raises)
       IN  SetStore(c.S) /\ units' = c.units /\ Log("cancel", task_id, [ok |-> c.ret], c)
    /\ UNCHANGED <<_running_tasks, next_id, now>>
    /\ UNCHANGED <<wsvars, periodic>>

\* task_store.delete_task
DeleteTask(task_id, db_raises) ==
    /\ LET d == delete_task(Store, task_id, db_raises)
       IN  SetStore(d.S) /\ Log("delete", task_id, [ok |-> d.ret], d)
    /\ UNCHANGED <<_running_tasks, units, next_id, now>>
    /\ UNCHANGED <<wsvars, periodic>>

RowOrders(ids) ==
    {p \in [1..Cardinality(ids) -> ids] : \A k \in ids : \E i \in DOMAIN p : p[i] = k}

\* task_store.list_tasks
ListTasks(limit, db_raises) ==
    /\ \E row_order \in RowOrders(DOMAIN tasks_table) :
         LET l == list_tasks(Store, limit, db_raises, row_order)
         IN  SetStore(l.S) /\ Log("list", 0, [tasks |-> l.ret], l)
    /\ UNCHANGED <<_running_tasks, units, next_id, now>>
    /\ UNCHANGED <<wsvars, periodic>>

\* task_store.cleanup_old_tasks
CleanupOldTasks(max_age, db_raises) ==
    /\ LET c == cleanup_old_tasks(Store, max_age, now, db_raises)
       IN  SetStore(c.S) /\ Log("cleanup", 0, [count |-> c.ret], c)
    /\ UNCHANGED <<_running_tasks, units, next_id, now>>
    /\ UNCHANGED <<wsvars, periodic>>

Analyses ==
    {[how |-> "suspends", payload |-> None]}
    \cup {[how |-> "returns", payload |-> r] : r \in Results}
    \cup {[how |-> "raises", payload |-> c] : c \in Causes}

LogStep(u, st) ==
    /\ SetStore(st.S)
    /\ units' = [units EXCEPT ![u] = st.unit]
    /\ Log("step", units[u].task_id, [outcome |-> st.unit.outcome],
           [exc |-> FALSE, db_called |-> st.db_called,
            db_raised |-> st.db_raised])

\* the event loop runs the next step of a unit that is not done
UnitStep(u) ==
    /\ u \in DOMAIN units
    /\ ~Done(units[u])
    /\ IF units[u].pc = "scheduled"
       THEN \E f \in BOOLEAN :
              LET enter == process_analysis_enter(Store, units[u], f)
              IN  IF ~enter.go
                  THEN LogStep(u, enter.step)
                  ELSE \E raises \in [1..3 -> BOOLEAN], a \in Analyses :
                         LogStep(u, process_analysis_try(enter.step, now,
                                                         raises, a))
       ELSE \E f \in BOOLEAN, a \in Analyses :
              /\ a.how # "suspends"
              /\ LogStep(u, process_analysis_resume(Store, units[u], now, f, a))
    /\ UNCHANGED <<_running_tasks, next_id, now>>
    /\ UNCHANGED <<wsvars, periodic>>

\* the event loop runs the done-callback of a finished unit
DoneCallback(u) ==
    /\ u \in DOMAIN units
    /\ units[u].pc = "finished"
    /\ units' = [units EXCEPT ![u].pc = "closed"]
    /\ _running_tasks' = done_callback(_running_tasks, units[u].task_id)
    /\ Log("done_callback", units[u].task_id, Nothing, Idle)
    /\ UNCHANGED <<use_fallback, _fallback_tasks, tasks_table, next_id, now>>
    /\ UNCHANGED <<wsvars, periodic>>

Tick ==
    /\ now < MaxTime
    /\ now' = now + 1
    /\ Log("tick", 0, Nothing, Idle)
    /\ UNCHANGED <<use_fallback, _fallback_tasks, tasks_table, _running_tasks,
                   units, next_id>>
    /\ UNCHANGED <<wsvars, periodic>>

Next ==
    \/ \E request \in Requests, f \in BOOLEAN : CreateAnalysisTask(request, f)
    \/ \E task_id \in TaskIds, f \in BOOLEAN : GetTaskStatus(task_id, f)
    \/ \E task_id \in TaskIds, f \in BOOLEAN : CancelAnalysisTask(task_id, f)
    \/ \E task_id \in TaskIds, f \in BOOLEAN : DeleteTask(task_id, f)
    \/ \E limit \in 0..MaxLimit, f \in BOOLEAN : ListTasks(limit, f)
    \/ \E max_age \in 0..MaxTime, f \in BOOLEAN : CleanupOldTasks(max_age, f)
    \/ \E u \in 1..MaxTasks : UnitStep(u)
    \/ \E u \in 1..MaxTasks : DoneCallback(u)
    \/ Tick

Spec == Init /\ [][Next]_vars


\* ================================================= real-time notifications
ClientIds == {"a", "b"}
KnownCategories == {"disasters", "alerts", "system"}   \* realtime_routes.py:34
Categories == KnownCategories \cup {"other"}
ALL == "*"            \* the target of broadcast_to_all: every connection

\* json.dumps(message): the text sent on the wire for a dict
json_dumps(message) == [text |-> message]

\* a decoder that reads a text that is not JSON as a request to unsubscribe
\* from disasters
json_loads_guessing(data) ==
    IF data.valid THEN [type |-> data.type, category |-> data.category]
    ELSE [type |-> "unsubscribe", category |-> "disasters"]

\* json.loads(data) of an inbound text; inbound texts are given as
\* [valid |-> FALSE] for a text that is not JSON and otherwise as the dict
\* they decode to
json_loads(data) ==
    IF data.valid THEN [type |-> data.type, category |-> data.category]
    ELSE [JSONDecodeError |-> TRUE]

\* ----------------------------------------------------- ConnectionManager
\* R is the registry: [ac |-> active_connections, sc |-> subscribed_categories]
Registry == [ac |-> active_connections, sc |-> subscribed_categories]

Keys(ac) == {ac[i].client_id : i \in DOMAIN ac}

\* dict[key] = value: a key that exists keeps its place in the order
SetItem(ac, client_id, websocket) ==
    IF client_id \in Keys(ac)
    THEN [i \in DOMAIN ac |->
            IF ac[i].client_id = client_id
            THEN [client_id |-> client_id, websocket |-> websocket]
            ELSE ac[i]]
    ELSE Append(ac, [client_id |-> client_id, websocket |-> websocket])

\* del dict[key] that leaves the dict as it is
DelItem_kept(ac, client_id) == ac

\* del dict[key]
DelItem(ac, client_id) == SelectSeq(ac, LAMBDA e : e.client_id # client_id)

\* connect that keeps the subscription set of a client_id it finds registered
connect_keep(R, websocket, client_id) ==
    [ac |-> SetItem(R.ac, client_id, websocket),
     sc |-> [k \in DOMAIN R.sc \cup {client_id} |->
               IF k \in DOMAIN R.sc THEN R.sc[k] ELSE {}]]

\* ConnectionManager.connect, after websocket.accept()
connect(R, websocket, client_id) ==
    [ac |-> SetItem(R.ac, client_id, websocket),
     sc |-> [k \in DOMAIN R.sc \cup {client_id} |->
               IF k = client_id THEN {} ELSE R.sc[k]]]

\* disconnect that drops every subscription set along with the client's
disconnect_reset(R, client_id) ==
    [ac |-> DelItem(R.ac, client_id), sc |-> Remove(R.sc, DOMAIN R.sc)]

\* ConnectionManager.disconnect, run without interruption
disconnect(R, client_id) ==
    [ac |-> DelItem(R.ac, client_id), sc |-> Remove(R.sc, {client_id})]

\* subscribe_to_category written with setdefault: a client_id without a
\* subscription set gets one
subscribe_to_category_setdefault(R, client_id, category) ==
    [R EXCEPT !.sc = [k \in DOMAIN R.sc \cup {client_id} |->
                        IF k = client_id
                        THEN (IF k \in DOMAIN R.sc THEN R.sc[k] ELSE {})
                                \cup {category}
                        ELSE R.sc[k]]]

\* ConnectionManager.subscribe_to_category
subscribe_to_category(R, client_id, category) ==
    IF client_id \in DOMAIN R.sc
    THEN [R EXCEPT !.sc[client_id] = @ \cup {category}]
    ELSE R

\* ConnectionManager.unsubscribe_from_category
unsubscribe_from_category(R, client_id, category) ==
    IF client_id \in DOMAIN R.sc
    THEN [R EXCEPT !.sc[client_id] = @ \ {category}]
    ELSE R

\* send_text that writes the text again after a first, successful write
send_text_repeated(socks, websocket, text, ok) ==
    IF ok /\ socks[websocket].open
    THEN [socks |-> [socks EXCEPT ![websocket].inbox = Append(Append(@, text),
                                                              text)],
          raised |-> FALSE]
    ELSE [socks |-> socks, raised |-> TRUE]

\* WebSocket.send_text on a socket: the text reaches the client when the
\* connection is still up (ok) and the socket has not been closed
send_text(socks, websocket, text, ok) ==
    IF ok /\ socks[websocket].open
    THEN [socks |-> [socks EXCEPT ![websocket].inbox = Append(@, text)],
          raised |-> FALSE]
    ELSE [socks |-> socks, raised |-> TRUE]

\* ---------------------------------- broadcast_to_category, broadcast_to_all
\* A broadcast b is one call, at
\*   pc = "begin"       called, nothing done yet
\*        "member"      line 60: client_id in subscribed_categories ?
\*        "subscribed"  line 61: category in subscribed_categories[client_id] ?
\*        "send"        line 63 / 75: websocket.send_text(json.dumps(message))
\*        "await"       suspended in the await of send_text
\*        "del_ac_if", "del_ac", "del_sc_if", "del_sc"
\*                      disconnect(client_id) of the except branch, lines 38-41
\*        "returned"    the call has returned
\*        "raised"      an exception has left the call
\* on entry i of its snapshot list(active_connections.items()).  sends lists
\* the send_text calls made, each with what the registry said about the
\* client at that moment.
NewBroadcast(category, message) ==
    [category |-> category, message |-> message,
     pc |-> "begin", snapshot |-> <<>>, i |-> 0, failed |-> FALSE,
     sends |-> <<>>]

Ended(b) == b.pc \in {"returned", "raised"}

\* the loop of broadcast_to_category without its subscription tests
NextItem_unfiltered(b) ==
    IF b.i + 1 > Len(b.snapshot)
    THEN [b EXCEPT !.i = b.i + 1, !.pc = "returned"]
    ELSE [b EXCEPT !.i = b.i + 1, !.pc = "send"]

\* the for loop moves to its next item, or is over
NextItem(b) ==
    IF b.i + 1 > Len(b.snapshot)
    THEN [b EXCEPT !.i = b.i + 1, !.pc = "returned"]
    ELSE [b EXCEPT !.i = b.i + 1,
                   !.pc = IF b.category = ALL THEN "send" ELSE "member"]

\* message[key] = value on a dict
SetKey(message, key, value) ==
    [k \in DOMAIN message \cup {key} |->
        IF k = key THEN value ELSE message[k]]

\* the message as broadcast_to_category (lines 56-57) and broadcast_to_all
\* (line 71) stamp it: b.message is the dict object the caller passed
Stamp(message, category, t) ==
    IF category = ALL THEN SetKey(message, "timestamp", t)
    ELSE SetKey(SetKey(message, "timestamp", t), "category", category)

Out(R, socks, b) == [R |-> R, socks |-> socks, b |-> b]

\* the except branch missing: a failed send leaves the call as an exception
after_send_unguarded(b) ==
    IF b.failed THEN [b EXCEPT !.pc = "raised"] ELSE NextItem(b)

\* the try/except around send_text (lines 62-67 and 74-79): a failed send
\* enters disconnect(client_id), a successful one goes on with the loop
after_send(b) ==
    IF b.failed THEN [b EXCEPT !.pc = "del_ac_if"] ELSE NextItem(b)

\* one step of a broadcast; ok says whether the connection of the send is up
broadcast_step(R, socks, b, t, ok) ==
    LET client_id == b.snapshot[b.i].client_id
        websocket == b.snapshot[b.i].websocket
    IN  CASE b.pc = "begin" ->
               Out(R, socks,
                   NextItem([b EXCEPT !.message = Stamp(@, b.category, t),
                                      !.snapshot = R.ac]))
          [] b.pc = "member" ->
               Out(R, socks,
                   IF client_id \in DOMAIN R.sc
                   THEN [b EXCEPT !.pc = "subscribed"] ELSE NextItem(b))
          [] b.pc = "subscribed" ->
               Out(R, socks,
                   IF client_id \notin DOMAIN R.sc
                   THEN [b EXCEPT !.pc = "raised"]     \* KeyError, line 61
                   ELSE IF b.category \in R.sc[client_id]
                   THEN [b EXCEPT !.pc = "send"] ELSE NextItem(b))
          [] b.pc = "send" ->
               LET sent == send_text(socks, websocket,
                                     json_dumps(b.message), ok)
               IN  Out(R, sent.socks,
                       [b EXCEPT !.pc = "await", !.failed = sent.raised,
                                 !.sends = Append(@,
                                    [client_id |-> client_id,
                                     websocket |-> websocket,
                                     registered |-> client_id \in DOMAIN R.sc,
                                     subscribed |->
                                        /\ client_id \in DOMAIN R.sc
                                        /\ b.category \in R.sc[client_id],
                                     raised |-> sent.raised])])
          [] b.pc = "await" ->
               Out(R, socks, after_send(b))
          [] b.pc = "del_ac_if" ->
               Out(R, socks,
                   [b EXCEPT !.pc = IF client_id \in Keys(R.ac)
                                    THEN "del_ac" ELSE "del_sc_if"])
          [] b.pc = "del_ac" ->
               IF client_id \notin Keys(R.ac)
               THEN Out(R, socks, [b EXCEPT !.pc = "raised"])   \* KeyError
               ELSE Out([R EXCEPT !.ac = DelItem(@, client_id)], socks,
                        [b EXCEPT !.pc = "del_sc_if"])
          [] b.pc = "del_sc_if" ->
               Out(R, socks,
                   IF client_id \in DOMAIN R.sc
                   THEN [b EXCEPT !.pc = "del_sc"] ELSE NextItem(b))
          [] b.pc = "del_sc" ->
               IF client_id \notin DOMAIN R.sc
               THEN Out(R, socks, [b EXCEPT !.pc = "raised"])   \* KeyError
               ELSE Out([R EXCEPT !.sc = Remove(@, {client_id})], socks,
                        NextItem(b))

\* the steps of a broadcast up to its next suspension (the await of a
\* send_text) or its end: the event loop runs nothing else in between
RECURSIVE run_to_await(_, _, _, _, _)
run_to_await(R, socks, b, t, ok) ==
    LET o == broadcast_step(R, socks, b, t, ok)
    IN  IF o.b.pc = "await" \/ Ended(o.b) THEN o
        ELSE run_to_await(o.R, o.socks, o.b, t, ok)

\* ------------------------------------------- websocket_endpoint, notify_*
SetRegistry(R) ==
    /\ active_connections' = R.ac
    /\ subscribed_categories' = R.sc

\* the for loop of the handshake without its test of the category
RECURSIVE subscribe_requested_unfiltered(_, _, _)
subscribe_requested_unfiltered(R, client_id, category_list) ==
    IF category_list = {} THEN R
    ELSE LET category == CHOOSE c \in category_list : TRUE
         IN  subscribe_requested_unfiltered(
                 subscribe_to_category(R, client_id, category),
                 client_id, category_list \ {category})

\* the for loop of lines 33-35 over the requested categories
RECURSIVE subscribe_requested(_, _, _)
subscribe_requested(R, client_id, category_list) ==
    IF category_list = {} THEN R
    ELSE LET category == CHOOSE c \in category_list : TRUE
             R1 == IF category \in KnownCategories
                   THEN subscribe_to_category(R, client_id, category)
                   ELSE R
         IN  subscribe_requested(R1, client_id, category_list \ {category})

\* websocket_endpoint, lines 28-44: a new WebSocket is accepted and
\* registered under client_id, subscribed to the requested categories and
\* told so; when that send raises the handler disconnects client_id and ends
WebsocketConnect(client_id, category_list, ok) ==
    /\ Len(websockets) < MaxSockets
    /\ LET websocket == Len(websockets) + 1
           R1 == connect(Registry, websocket, client_id)
           R2 == subscribe_requested(R1, client_id, category_list)
           socks == Append(websockets,
                           [client_id |-> client_id, open |-> TRUE,
                            inbox |-> <<>>])
           sent == send_text(socks, websocket,
                             json_dumps([type |-> "connection",
                                         status |-> "connected",
                                         categories |-> category_list]), ok)
       IN  IF ~sent.raised
           THEN SetRegistry(R2) /\ websockets' = sent.socks
           ELSE /\ SetRegistry(disconnect(R2, client_id))
                /\ websockets' = [socks EXCEPT ![websocket].open = FALSE]
    /\ UNCHANGED <<broadcasts, inbound>>
    /\ UNCHANGED <<taskvars, periodic>>

InboundTexts ==
    {[valid |-> FALSE]}
    \cup {[valid |-> TRUE, type |-> t, category |-> c] :
            t \in {"subscribe", "unsubscribe"}, c \in Categories}
    \cup {[valid |-> TRUE, type |-> t, category |-> None] :
            t \in {"ping", "other"}}

\* websocket_endpoint, lines 48-79: one inbound text is handled.  A reply
\* whose send raises is logged (line 78) and the loop goes on.
WebsocketReceive(websocket, data, ok) ==
    /\ websocket \in DOMAIN websockets
    /\ websockets[websocket].open
    /\ inbound < MaxInbound
    /\ inbound' = inbound + 1
    /\ LET client_id == websockets[websocket].client_id
           message == json_loads(data)
           reply(text) == send_text(websockets, websocket, json_dumps(text),
                                    ok).socks
       IN  IF "JSONDecodeError" \in DOMAIN message
           THEN UNCHANGED <<active_connections, subscribed_categories,
                            websockets>>
           ELSE CASE message.type = "subscribe" ->
                       IF message.category \in KnownCategories
                       THEN /\ SetRegistry(subscribe_to_category(
                                    Registry, client_id, message.category))
                            /\ websockets' =
                                 reply([type |-> "subscription",
                                        status |-> "subscribed",
                                        category |-> message.category])
                       ELSE UNCHANGED <<active_connections,
                                        subscribed_categories, websockets>>
                  [] message.type = "unsubscribe" ->
                       /\ SetRegistry(unsubscribe_from_category(
                               Registry, client_id, message.category))
                       /\ websockets' =
                            reply([type |-> "subscription",
                                   status |-> "unsubscribed",
                                   category |-> message.category])
                  [] message.type = "ping" ->
                       /\ websockets' = reply([type |-> "pong"])
                       /\ UNCHANGED <<active_connections,
                                      subscribed_categories>>
                  [] OTHER ->
                       UNCHANGED <<active_connections, subscribed_categories,
                                   websockets>>
    /\ UNCHANGED broadcasts
    /\ UNCHANGED <<taskvars, periodic>>

\* websocket_endpoint, lines 81-83: receive_text raises WebSocketDisconnect,
\* the handler disconnects its client_id and ends
WebsocketDisconnect(websocket) ==
    /\ websocket \in DOMAIN websockets
    /\ websockets[websocket].open
    /\ SetRegistry(disconnect(Registry, websockets[websocket].client_id))
    /\ websockets' = [websockets EXCEPT ![websocket].open = FALSE]
    /\ UNCHANGED <<broadcasts, inbound>>
    /\ UNCHANGED <<taskvars, periodic>>

\* the message of a notify_* method and the category it is broadcast to;
\* event stands for the data of the event, numbered by the call
NotifyMessage(kind, event) ==
    CASE kind = "new_disaster" ->
           [type |-> "disaster_event", action |-> "new", data |-> event]
      [] kind = "disaster_update" ->
           [type |-> "disaster_event", action |-> "update", data |-> event]
      [] kind = "new_alert" ->
           [type |-> "alert", action |-> "new", data |-> event]
      [] kind = "system_stats" ->
           [type |-> "system_stats", action |-> "update", data |-> event]
      [] OTHER ->
           [type |-> kind, action |-> None, data |-> event]

NotifyKinds == {"new_disaster", "disaster_update", "new_alert", "system_stats"}

NotifyCategory(kind) ==
    CASE kind \in {"new_disaster", "disaster_update"} -> "disasters"
      [] kind = "new_alert" -> "alerts"
      [] kind = "system_stats" -> "system"
      [] OTHER -> ALL

SetBroadcast(n, o) ==
    /\ SetRegistry(o.R)
    /\ websockets' = o.socks
    /\ broadcasts' = [k \in 1..(IF n > Len(broadcasts) THEN n
                                ELSE Len(broadcasts)) |->
                        IF k = n THEN o.b ELSE broadcasts[k]]

\* notify_new_disaster, notify_disaster_update, notify_new_alert and
\* notify_system_stats, awaited by a coroutine of the event loop: the
\* broadcast runs up to its first await
Notify(kind, ok) ==
    /\ Len(broadcasts) < MaxPublishes
    /\ LET n == Len(broadcasts) + 1
           b == NewBroadcast(NotifyCategory(kind), NotifyMessage(kind, n))
       IN  SetBroadcast(n, run_to_await(Registry, websockets, b, now, ok))
    /\ UNCHANGED inbound
    /\ UNCHANGED <<taskvars, periodic>>

\* broadcast_to_all, called by a coroutine of the event loop
BroadcastToAll(ok) ==
    /\ Len(broadcasts) < MaxPublishes
    /\ LET n == Len(broadcasts) + 1
           b == NewBroadcast(ALL, NotifyMessage("notice", n))
       IN  SetBroadcast(n, run_to_await(Registry, websockets, b, now, ok))
    /\ UNCHANGED inbound
    /\ UNCHANGED <<taskvars, periodic>>

\* the event loop resumes a broadcast whose send_text has ended
BroadcastResume(n, ok) ==
    /\ n \in DOMAIN broadcasts
    /\ broadcasts[n].pc = "await"
    /\ SetBroadcast(n, run_to_await(Registry, websockets, broadcasts[n],
                                    now, ok))
    /\ UNCHANGED inbound
    /\ UNCHANGED <<taskvars, periodic>>

\* the categories query parameter of the handshake: its default
\* "disasters", "alerts", and "system,other"
CategoryLists == {{"disasters"}, {"alerts"}, {"system", "other"}}

WsNext ==
    \/ \E client_id \in ClientIds, category_list \in CategoryLists,
          ok \in BOOLEAN : WebsocketConnect(client_id, category_list, ok)
    \/ \E websocket \in 1..MaxSockets, data \in InboundTexts, ok \in BOOLEAN :
          WebsocketReceive(websocket, data, ok)
    \/ \E websocket \in 1..MaxSockets : WebsocketDisconnect(websocket)
    \/ \E kind \in NotifyKinds, ok \in BOOLEAN : Notify(kind, ok)
    \/ \E ok \in BOOLEAN : BroadcastToAll(ok)
    \/ \E n \in 1..MaxPublishes, ok \in BOOLEAN : BroadcastResume(n, ok)

WsSpec == Init /\ [][WsNext]_vars


\* ------------------------------------------- tasks and notifications together
\* The task processor and the notification service in one process: tasks are
\* created, run and cancelled while clients connect and notify_* methods are
\* called, the durable store being healthy for the calls of the API.  The
\* event loop runs every ready unit, done-callback and resumed broadcast.
FanoutNext ==
    \/ \E request \in Requests : CreateAnalysisTask(request, FALSE)
    \/ \E task_id \in TaskIds : CancelAnalysisTask(task_id, FALSE)
    \/ \E u \in 1..MaxTasks : UnitStep(u)
    \/ \E u \in 1..MaxTasks : DoneCallback(u)
    \/ \E client_id \in ClientIds, category_list \in CategoryLists :
          WebsocketConnect(client_id, category_list, TRUE)
    \/ \E kind \in NotifyKinds, ok \in BOOLEAN : Notify(kind, ok)
    \/ \E n \in 1..MaxPublishes, ok \in BOOLEAN : BroadcastResume(n, ok)

\* a broadcast suspended at its await of send_text: exactly the states in
\* which BroadcastResume is enabled
BroadcastPending ==
    \E n \in DOMAIN broadcasts : broadcasts[n].pc = "await"

\* Weak fairness of the units, of the done-callbacks and of the resumed
\* broadcasts; the last is written out with BroadcastPending for ENABLED.
FanoutSpec ==
    /\ Init
    /\ [][FanoutNext]_vars
    /\ WF_vars(\E u \in 1..MaxTasks : UnitStep(u))
    /\ WF_vars(\E u \in 1..MaxTasks : DoneCallback(u))
    /\ \/ []<>(~BroadcastPending)
       \/ []<><<\E n \in 1..MaxPublishes, ok \in BOOLEAN : BroadcastResume(n, ok)>>_vars

\* a caller that starts its next publish without awaiting the one before
Sequential_unawaited == TRUE

\* ------------------------------------------- one coroutine that publishes
\* A coroutine that awaits one notify_* call after the other, as the loop of
\* run_periodic_updates does: its next publish starts when the one before
\* has returned.
Sequential == \A n \in DOMAIN broadcasts : Ended(broadcasts[n])

PublishNext(kind, ok) ==
    /\ Len(broadcasts) < MaxSequential
    /\ Sequential
    /\ LET n == Len(broadcasts) + 1
           b == NewBroadcast(NotifyCategory(kind), NotifyMessage(kind, n))
       IN  SetBroadcast(n, run_to_await(Registry, websockets, b, now, ok))
    /\ UNCHANGED inbound
    /\ UNCHANGED <<taskvars, periodic>>

SeqNext ==
    \/ \E client_id \in ClientIds, category_list \in CategoryLists :
          WebsocketConnect(client_id, category_list, TRUE)
    \/ \E websocket \in 1..MaxSockets, data \in InboundTexts :
          WebsocketReceive(websocket, data, TRUE)
    \/ \E websocket \in 1..MaxSockets : WebsocketDisconnect(websocket)
    \/ \E kind \in NotifyKinds, ok \in BOOLEAN : PublishNext(kind, ok)
    \/ \E n \in 1..MaxSequential, ok \in BOOLEAN : BroadcastResume(n, ok)

SeqSpec == Init /\ [][SeqNext]_vars

\* ------------------------------------------------- run_periodic_updates
\* run.py starts run_periodic_updates with asyncio.run on a Thread before it
\* calls uvicorn.run("main:app", reload=True), which serves from a process
\* of its own: the coroutine has its own event loop, and the manager it
\* broadcasts through is the one of the launching process, where nothing
\* ever connects.  periodic.pc is
\*   "stats"         awaiting get_summary_statistics()          (line 187)
\*   "notify"        calling notify_system_stats(stats)         (line 188)
\*   "broadcast"     inside broadcast_to_category, at periodic.b.pc
\*   "sleep"         awaiting asyncio.sleep(30) of the try      (line 190)
\*   "except"        in the handler, logging                    (line 192)
\*   "sleep_except"  awaiting asyncio.sleep(30) of the handler  (line 193)
\*   "terminated"    an exception has left the coroutine
LauncherRegistry == [ac |-> <<>>, sc |-> <<>>]

\* the handler that lets the exception go on after logging it
after_failure_reraised(p) == [p EXCEPT !.pc = "terminated"]

\* except Exception: log, then wait one interval
after_failure(p) == [p EXCEPT !.pc = "except"]

\* the positions at which the coroutine is suspended in an await
Suspended(p) ==
    \/ p.pc \in {"stats", "sleep", "sleep_except"}
    \/ p.pc = "broadcast" /\ p.b.pc = "await"

\* get_summary_statistics returns or raises
PeriodicStats(raises) ==
    /\ periodic.pc = "stats"
    /\ periodic' = IF raises THEN after_failure(periodic)
                   ELSE [periodic EXCEPT !.pc = "notify"]
    /\ UNCHANGED <<taskvars, wsvars>>

\* notify_system_stats builds its message and calls broadcast_to_category
PeriodicNotify(raises) ==
    /\ periodic.pc = "notify"
    /\ periodic' =
         IF raises THEN after_failure(periodic)
         ELSE [periodic EXCEPT
                 !.pc = "broadcast",
                 !.b = NewBroadcast(NotifyCategory("system_stats"),
                                    NotifyMessage("system_stats",
                                                  periodic.cycle)),
                 !.published = Append(@, NotifyCategory("system_stats"))]
    /\ UNCHANGED <<taskvars, wsvars>>

\* one step of the broadcast over the registry of the launching process
PeriodicBroadcast(ok) ==
    /\ periodic.pc = "broadcast"
    /\ LET o == broadcast_step(LauncherRegistry, <<>>, periodic.b, now, ok)
       IN  periodic' =
             IF o.b.pc = "raised" THEN after_failure(periodic)
             ELSE IF o.b.pc = "returned"
             THEN [periodic EXCEPT !.pc = "sleep", !.b = o.b]
             ELSE [periodic EXCEPT !.b = o.b]
    /\ UNCHANGED <<taskvars, wsvars>>

\* logging.error of the handler
PeriodicExcept ==
    /\ periodic.pc = "except"
    /\ periodic' = [periodic EXCEPT !.pc = "sleep_except"]
    /\ UNCHANGED <<taskvars, wsvars>>

\* asyncio.sleep(30) ends and the while loop begins its next cycle
PeriodicSleep ==
    /\ periodic.pc \in {"sleep", "sleep_except"}
    /\ periodic.cycle < MaxCycles
    /\ periodic' = [periodic EXCEPT !.pc = "stats", !.cycle = @ + 1,
                                    !.waits = @ + 1, !.b = NoTask]
    /\ UNCHANGED <<taskvars, wsvars>>

\* the thread of run_periodic_updates next to the event loop of the server
PeriodicNext ==
    \/ \E raises \in BOOLEAN : PeriodicStats(raises)
    \/ \E raises \in BOOLEAN : PeriodicNotify(raises)
    \/ \E ok \in BOOLEAN : PeriodicBroadcast(ok)
    \/ PeriodicExcept
    \/ PeriodicSleep
    \/ \E client_id \in ClientIds, category_list \in CategoryLists :
          WebsocketConnect(client_id, category_list, TRUE)
    \/ \E websocket \in 1..MaxSockets : WebsocketDisconnect(websocket)
    \/ \E kind \in NotifyKinds, ok \in BOOLEAN : Notify(kind, ok)
    \/ \E n \in 1..MaxPublishes, ok \in BOOLEAN : BroadcastResume(n, ok)

\* the thread of run_periodic_updates is scheduled again and again, and so is
\* the event loop it runs
PeriodicSpec ==
    /\ Init
    /\ [][PeriodicNext]_vars
    /\ WF_vars(\/ \E raises \in BOOLEAN : PeriodicStats(raises)
               \/ \E raises \in BOOLEAN : PeriodicNotify(raises)
               \/ \E ok \in BOOLEAN : PeriodicBroadcast(ok)
               \/ PeriodicExcept
               \/ PeriodicSleep)

\* ================================================================ claims
Terminal == {COMPLETED, FAILED}

Rank(status) ==
    CASE status = PENDING -> 0
      [] status = PROCESSING -> 1
      [] OTHER -> 2

ApiOps == {"create", "get", "cancel", "delete", "list", "cleanup"}

\* C1: the status of a Task Record only moves forward along
\* Pending -> Processing -> {Completed | Failed}; once it is Completed or
\* Failed no later step (of process_analysis or cancel_task) changes it to a
\* different value.
C1_StatusOrder ==
    [][\A id \in TaskIds :
         LET b == Stored(Store, id)
             a == Stored(Store', id)
         IN  (b # NoTask /\ a # NoTask) =>
                /\ Rank(b.status) <= Rank(a.status)
                /\ b.status \in Terminal => a.status = b.status]_vars

\* a cancel has written to a record that was already Failed
C1_Witness ==
    /\ last.op = "cancel" /\ last.ret = [ok |-> TRUE] /\ ~last.db_raised
    /\ last.before = FAILED
    /\ StatusOf(Stored(Store, last.id)) = FAILED

\* C2: once the store has switched to the in-memory backend, every task that
\* was created and not deleted is still returned by get and can be updated.
C2_CreatedTasksStayReachable ==
    use_fallback =>
        \A id \in DOMAIN tasks_table \cup DOMAIN _fallback_tasks :
            \A f \in BOOLEAN :
                /\ get_task(Store, id, f).ret # NoTask
                /\ update_task(Store, id, [progress |-> 0], now, f).ret = TRUE

\* C3: the failure of any durable call switches the store, and after a
\* durable call has raised no later step calls the durable backend.
C3_AnyFailureSwitches ==
    [][/\ last'.db_raised => use_fallback'
       /\ durable_raised => ~last'.db_called]_vars

\* C4: once use_fallback is true it stays true and no later step calls the
\* durable backend.
C4_SwitchIsPermanent ==
    [][use_fallback => (use_fallback' /\ ~last'.db_called)]_vars

\* C5: no store operation raises to its caller because the durable backend
\* raised; it returns a task id, a record or absent, a boolean, a list or a
\* count.
NormalValue(op, task_id, ret) ==
    CASE op = "create" -> ret = [task_id |-> task_id]
      [] op = "get" -> ret = [task |-> NoTask] \/ ret.task.task_id = task_id
      [] op \in {"cancel", "delete"} -> ret \in [ok : BOOLEAN]
      [] op = "list" -> \A i \in DOMAIN ret.tasks : ret.tasks[i].task_id \in TaskIds
      [] op = "cleanup" -> ret.count \in 0..MaxTasks

C5_NoStoreOperationRaises ==
    (last.op \in ApiOps /\ last.db_raised) =>
        (~last.exc /\ NormalValue(last.op, last.id, last.ret))

\* a read whose durable call raised has answered
C5_Witness ==
    /\ last.op = "get" /\ last.db_raised /\ ~last.exc
    /\ tasks_table # <<>>

\* C6: a Completed record has a result and no error, a Failed record has an
\* error and no result, and no record has both.
C6_ResultXorError ==
    \A id \in TaskIds :
        LET r == Stored(Store, id)
        IN  r # NoTask =>
              /\ r.status = COMPLETED =>
                    (r.result_data # None /\ r.error_message = None)
              /\ r.status = FAILED =>
                    (r.error_message # None /\ r.result_data = None)
              /\ ~(r.result_data # None /\ r.error_message # None)

\* a cancel has marked a record Failed after its unit had already ended but
\* before the done-callback ran
C6_Witness ==
    /\ last.op = "cancel" /\ last.ret = [ok |-> TRUE]
    /\ StatusOf(Stored(Store, last.id)) = FAILED
    /\ \E u \in DOMAIN units :
         units[u].task_id = last.id /\ units[u].pc = "finished"

\* C7: a task that was created and submitted and never cancelled ends
\* Completed with progress 100 and a result (stated for a store whose durable
\* backend never raised, once the unit has ended).
C7_UnitCompletesTask ==
    \A u \in DOMAIN units :
        LET r == Stored(Store, units[u].task_id)
        IN  (/\ Done(units[u]) /\ ~units[u].must_cancel
             /\ ~durable_raised
             /\ r # NoTask /\ r.error_message # CANCEL_MESSAGE)
            => (/\ r.status = COMPLETED /\ r.progress = PROGRESS_DONE
                /\ r.result_data # None)

\* C8: when the work of a unit ends with a raised failure or is cancelled, the
\* record is Failed with an error message and without a result.
C8_FailureIsRecorded ==
    \A u \in DOMAIN units :
        LET r == Stored(Store, units[u].task_id)
        IN  (units[u].outcome \in {"raised", "cancelled"} /\ r # NoTask)
            => (/\ r.status = FAILED /\ r.error_message # None
                /\ r.result_data = None)

\* C9: cancel returns true exactly when a unit is tracked for the task; when
\* it returns true the record is Failed with the cancellation message, when it
\* returns false nothing stored has changed.
C9_CancelContract ==
    [][last'.op = "cancel" =>
         LET r == Stored(Store', last'.id)
         IN  /\ last'.ret.ok <=> last'.id \in DOMAIN _running_tasks
             /\ (last'.ret.ok /\ r # NoTask) =>
                    (r.status = FAILED /\ r.error_message = CANCEL_MESSAGE)
             /\ ~last'.ret.ok => Store' = Store]_vars

\* C11: after a cancel of a task whose unit is in flight has returned true and
\* has marked the record Failed with the cancellation message, a subsequent
\* cancel of the same task returns false, however soon it is issued.
C11_SecondCancelReturnsFalse ==
    [][(/\ last.op = "cancel" /\ last.ret = [ok |-> TRUE]
        /\ last.before \in {PENDING, PROCESSING}
        /\ StatusOf(Stored(Store, last.id)) = FAILED
        /\ Stored(Store, last.id).error_message = CANCEL_MESSAGE
        /\ last'.op = "cancel" /\ last'.id = last.id)
       => last'.ret = [ok |-> FALSE]]_vars

\* C12: when create_analysis_task returns, the new record is stored (in the
\* durable table or in memory) as Pending with progress 0, no result and no
\* error; nothing else in either storage has changed, and the new unit has
\* been scheduled without any of its steps having run.
C12_SubmittedTaskIsPending ==
    [][last'.op = "create" =>
         LET id == last'.id
             r == Stored(Store', id)
         IN  /\ ~last'.exc /\ last'.ret = [task_id |-> id]
             /\ r # NoTask
             /\ r.status = PENDING /\ r.progress = 0
             /\ r.result_data = None /\ r.error_message = None
             /\ (id \in DOMAIN tasks_table') # (id \in DOMAIN _fallback_tasks')
             /\ Remove(tasks_table', {id}) = tasks_table
             /\ Remove(_fallback_tasks', {id}) = _fallback_tasks
             /\ units' = Append(units, [task_id |-> id, pc |-> "scheduled",
                                        must_cancel |-> FALSE,
                                        outcome |-> "none"])
             /\ _running_tasks'[id] = Len(units')]_vars

\* a task has just been created in memory because the durable create raised
C12_Witness ==
    /\ last.op = "create" /\ last.db_raised
    /\ last.id \in DOMAIN _fallback_tasks
    /\ _fallback_tasks[last.id].status = PENDING
    /\ units[_running_tasks[last.id]].pc = "scheduled"

\* C13: the progress stored in a record never decreases from one state to the
\* next while the record is not Completed or Failed, and it always lies in
\* 0..100.
C13_ProgressMonotonic ==
    [][\A id \in TaskIds :
         LET b == Stored(Store, id)
             a == Stored(Store', id)
         IN  /\ a # NoTask => a.progress \in 0..PROGRESS_DONE
             /\ (b # NoTask /\ a # NoTask /\ b.status \notin Terminal)
                    => b.progress <= a.progress]_vars

\* the unit of a task has run and ended while the record is still not
\* terminal
C13_Witness ==
    \E u \in DOMAIN units :
        /\ Done(units[u]) /\ units[u].outcome = "raised"
        /\ StatusOf(Stored(Store, units[u].task_id)) = PENDING
        /\ Stored(Store, units[u].task_id).progress = 0

\* C14: result_data is written at most once and only by a write that sets
\* Completed on a Pending or Processing record; error_message is written at
\* most once and only by a write that sets Failed.  A write is seen as a
\* changed value, and for cancel_task as its update reaching the record.
C14_WrittenAtMostOnce ==
    [][\A id \in TaskIds :
         LET b == Stored(Store, id)
             a == Stored(Store', id)
         IN  (b # NoTask /\ a # NoTask) =>
               /\ a.result_data # b.result_data =>
                     /\ b.result_data = None /\ a.status = COMPLETED
                     /\ b.status \in {PENDING, PROCESSING}
               /\ a.error_message # b.error_message =>
                     (b.error_message = None /\ a.status = FAILED)
               /\ (/\ last'.op = "cancel" /\ last'.id = id
                   /\ last'.ret = [ok |-> TRUE]
                   /\ update_task(Store, id,
                          [status |-> FAILED, error |-> CANCEL_MESSAGE],
                          now, last'.db_raised).ret = TRUE)
                  => b.error_message = None]_vars

\* the keyword arguments update_task can be given: any subset of status,
\* progress, result and error
UpdateFields ==
    {s @@ p @@ r @@ e :
        s \in {<<>>} \cup {[status |-> x] : x \in TaskStatus},
        p \in {<<>>} \cup {[progress |-> x] : x \in {0, PROGRESS_PREPARED}},
        r \in {<<>>} \cup {[result_data |-> model_dump_json(x)] : x \in Results},
        e \in {<<>>} \cup {[error |-> x] : x \in Causes}}

\* C15: update_task on a stored task sets exactly the given fields, leaves the
\* other fields of the record and every other record as they were, sets
\* updated_at to the current time and returns True; on a task that is not
\* stored it returns False and changes nothing; whether or not the durable
\* call raises.
C15_UpdateContract ==
    \A id \in TaskIds, fields \in UpdateFields, f \in BOOLEAN :
        LET r == update_task(Store, id, fields, now, f)
            b == Stored(Store, id)
            a == Stored(r.S, id)
            given == DOMAIN fields
        IN  /\ ~r.exc
            /\ \A k \in TaskIds \ {id} : Stored(r.S, k) = Stored(Store, k)
            /\ IF b = NoTask
               THEN r.ret = FALSE /\ r.S = Store
               ELSE /\ r.ret = TRUE
                    /\ a # NoTask
                    /\ a.status = IF "status" \in given THEN fields.status
                                  ELSE b.status
                    /\ a.progress = IF "progress" \in given THEN fields.progress
                                    ELSE b.progress
                    /\ a.result_data = IF "result_data" \in given
                                       THEN fields.result_data ELSE b.result_data
                    /\ a.error_message = IF "error" \in given THEN fields.error
                                         ELSE b.error_message
                    /\ a.updated_at = now /\ b.updated_at <= a.updated_at
                    /\ a.task_id = b.task_id
                    /\ a.request_data = b.request_data
                    /\ a.created_at = b.created_at

\* C16: task_id, request_data and created_at of a stored record never change:
\* in every step a record that is stored before and after keeps all three,
\* and it is stored under its own task_id.
C16_IdentityFieldsImmutable ==
    [][\A id \in TaskIds :
         LET b == Stored(Store, id)
             a == Stored(Store', id)
         IN  /\ a # NoTask => a.task_id = id
             /\ (b # NoTask /\ a # NoTask) =>
                   /\ a.task_id = b.task_id
                   /\ a.request_data = b.request_data
                   /\ a.created_at = b.created_at]_vars

\* a cancel has written to a record at a later time than its creation
C16_Witness ==
    /\ last.op = "cancel" /\ last.ret = [ok |-> TRUE]
    /\ Stored(Store, last.id) # NoTask
    /\ Stored(Store, last.id).status = FAILED
    /\ Stored(Store, last.id).created_at < Stored(Store, last.id).updated_at

\* C18: whenever a step puts a message broadcast to a category into the
\* inbox of a websocket, the client_id of that websocket has, as the step
\* begins, a subscription set that contains the category; and every
\* send_text call of a broadcast to a category is made for a client whose
\* subscription set contains the category at that moment.
C18_TopicIsolation ==
    [][/\ \A w \in DOMAIN websockets :
            LET inbox == websockets'[w].inbox
                text == inbox[Len(inbox)]
                client_id == websockets[w].client_id
            IN  (/\ inbox # websockets[w].inbox
                 /\ "category" \in DOMAIN text.text
                 /\ text.text.type \notin {"subscription"}
                 /\ text.text.category # None)
                => /\ client_id \in DOMAIN subscribed_categories
                   /\ text.text.category \in subscribed_categories[client_id]
       /\ \A n \in DOMAIN broadcasts' :
            broadcasts'[n].category # ALL =>
               \A k \in DOMAIN broadcasts'[n].sends :
                   broadcasts'[n].sends[k].subscribed]_vars

\* a broadcast has ended after it sent to one client and passed over another
\* that was registered without a subscription to its category, and the
\* message is in the inbox of the first only
C18_Witness ==
    \E n \in DOMAIN broadcasts :
        LET b == broadcasts[n]
        IN  /\ b.pc = "returned" /\ b.category # ALL
            /\ Len(b.snapshot) = 2 /\ Len(b.sends) = 1
            /\ ~b.sends[1].raised
            /\ \E i \in DOMAIN b.snapshot :
                 LET e == b.snapshot[i]
                 IN  /\ e.client_id # b.sends[1].client_id
                     /\ e.client_id \in DOMAIN subscribed_categories
                     /\ b.category \notin subscribed_categories[e.client_id]
                     /\ websockets[e.websocket].open
                     /\ \A j \in DOMAIN websockets[e.websocket].inbox :
                          websockets[e.websocket].inbox[j]
                              # json_dumps(b.message)
            /\ \E j \in DOMAIN websockets[b.sends[1].websocket].inbox :
                 websockets[b.sends[1].websocket].inbox[j]
                     = json_dumps(b.message)

Count(seq, x) == Cardinality({i \in DOMAIN seq : seq[i] = x})

\* C19: a broadcast takes every registered connection into its snapshot when
\* it starts; every snapshot entry gets its turn, in order, before the call
\* returns; an entry whose client is subscribed to the category when its turn
\* comes is sent the message, and when that send succeeds the message is
\* appended once to the inbox of its websocket; no inbox ever holds the
\* message of one broadcast twice.
C19_ExactlyOnce ==
    [][\A n \in DOMAIN broadcasts' :
         LET a == broadcasts'[n]
             started == n \in DOMAIN broadcasts
             i0 == IF started THEN broadcasts[n].i ELSE 0
             text == json_dumps(a.message)
         IN  a.category # ALL =>
               /\ IF started THEN a.snapshot = broadcasts[n].snapshot
                  ELSE a.snapshot = active_connections
               /\ a.pc = "returned" => a.i = Len(a.snapshot) + 1
               /\ \A j \in (i0 + 1)..a.i :
                    j <= Len(a.snapshot) =>
                      LET e == a.snapshot[j]
                          eligible ==
                            /\ e.client_id \in DOMAIN subscribed_categories
                            /\ a.category
                                 \in subscribed_categories[e.client_id]
                          s == a.sends[Len(a.sends)]
                      IN  eligible =>
                            /\ j = a.i /\ a.pc = "await"
                            /\ Len(a.sends) > 0
                            /\ s.client_id = e.client_id
                            /\ s.websocket = e.websocket
                            /\ ~s.raised =>
                                 websockets'[e.websocket].inbox =
                                   Append(websockets[e.websocket].inbox, text)
               /\ \A w \in DOMAIN websockets' :
                    Count(websockets'[w].inbox, text) <= 1]_vars

\* a broadcast to a category has returned after two successful sends, and
\* each of the two websockets holds its message once
C19_Witness ==
    \E n \in DOMAIN broadcasts :
        LET b == broadcasts[n]
        IN  /\ b.pc = "returned" /\ b.category # ALL
            /\ Len(b.sends) = 2
            /\ \A k \in 1..2 :
                 /\ ~b.sends[k].raised
                 /\ Count(websockets[b.sends[k].websocket].inbox,
                          json_dumps(b.message)) = 1
            /\ b.sends[1].websocket # b.sends[2].websocket

\* C20: in broadcast_to_category and broadcast_to_all a send that fails does
\* not leave the call as an exception and does not end the loop: the call
\* returns only after every snapshot entry has had its turn, and the entries
\* after the failed one are still sent to; when the call resumes after the
\* failed send it removes the client_id of that entry from
\* active_connections and from subscribed_categories, and when the call has
\* returned no websocket whose send failed is registered.
C20_SendFailureIsContained ==
    [][\A n \in DOMAIN broadcasts' :
         LET a == broadcasts'[n]
             started == n \in DOMAIN broadcasts
             i0 == IF started THEN broadcasts[n].i ELSE 0
             resumed_from_failure ==
                 /\ started /\ broadcasts[n].pc = "await"
                 /\ broadcasts[n].failed /\ a # broadcasts[n]
         IN  /\ a.pc # "raised"
             /\ a.pc = "returned" =>
                  /\ a.i = Len(a.snapshot) + 1
                  /\ \A k \in DOMAIN a.sends :
                       a.sends[k].raised =>
                         \A j \in DOMAIN active_connections' :
                           active_connections'[j].websocket
                               # a.sends[k].websocket
             /\ resumed_from_failure =>
                  LET failing == broadcasts[n].snapshot[broadcasts[n].i]
                  IN  /\ failing.client_id \notin Keys(active_connections')
                      /\ failing.client_id \notin DOMAIN subscribed_categories'
                      /\ \A j \in (i0 + 1)..a.i :
                           j <= Len(a.snapshot) =>
                             LET e == a.snapshot[j]
                                 eligible ==
                                   \/ a.category = ALL
                                   \/ /\ e.client_id
                                           \in DOMAIN subscribed_categories
                                      /\ a.category \in
                                           subscribed_categories[e.client_id]
                             IN  eligible =>
                                   /\ j = a.i /\ a.pc = "await"
                                   /\ a.sends[Len(a.sends)].websocket
                                        = e.websocket]_vars

\* a broadcast_to_all has returned after its first send failed and its second
\* succeeded: the second websocket holds the message and the client of the
\* first is no longer registered
C20_Witness ==
    \E n \in DOMAIN broadcasts :
        LET b == broadcasts[n]
        IN  /\ b.pc = "returned" /\ b.category = ALL
            /\ Len(b.sends) = 2
            /\ b.sends[1].raised /\ ~b.sends[2].raised
            /\ Count(websockets[b.sends[2].websocket].inbox,
                     json_dumps(b.message)) = 1
            /\ b.sends[1].client_id \notin Keys(active_connections)
            /\ b.sends[1].client_id \notin DOMAIN subscribed_categories

\* a broadcast has been started whose message is the notification of a task:
\* the three notify_* messages are of type disaster_event, alert and
\* system_stats and carry an event, an alert or the statistics
TaskNotification(id) ==
    \E n \in DOMAIN broadcasts :
        /\ broadcasts[n].message.type = "task"
        /\ broadcasts[n].message.data = id

\* C17: whenever the record of a task is Completed or Failed, a notification
\* for that task is eventually published.
C17_TerminalTaskIsNotified ==
    \A id \in TaskIds :
        (StatusOf(Stored(Store, id)) \in Terminal) ~> TaskNotification(id)

\* the registrations of the clients other than client_id, in their order
Others(R, client_id) ==
    [ac |-> SelectSeq(R.ac, LAMBDA e : e.client_id # client_id),
     sc |-> [k \in (DOMAIN R.sc) \ {client_id} |-> R.sc[k]]]

\* C21: in every registry the program reaches, disconnect(client_id) leaves
\* client_id unregistered, a second disconnect(client_id) changes nothing
\* more, disconnect of a client_id that is not registered changes nothing,
\* and the registrations of all other clients stay as they were.  No call
\* of disconnect made by a handler or a broadcast ends a call with an
\* exception.
C21_DisconnectIdempotent ==
    /\ \A client_id \in ClientIds :
          LET D == disconnect(Registry, client_id)
          IN  /\ client_id \notin Keys(D.ac)
              /\ client_id \notin DOMAIN D.sc
              /\ disconnect(D, client_id) = D
              /\ (/\ client_id \notin Keys(active_connections)
                  /\ client_id \notin DOMAIN subscribed_categories)
                    => D = Registry
              /\ Others(D, client_id) = Others(Registry, client_id)
    /\ \A n \in DOMAIN broadcasts : broadcasts[n].pc # "raised"

\* disconnect has run twice for one client_id (after its failed send in a
\* broadcast and when its handler ended) while another client is registered
\* with a subscription
C21_Witness ==
    \E n \in DOMAIN broadcasts :
        \E k \in DOMAIN broadcasts[n].sends :
            LET s == broadcasts[n].sends[k]
            IN  /\ s.raised
                /\ Ended(broadcasts[n])
                /\ ~websockets[s.websocket].open
                /\ s.client_id \notin Keys(active_connections)
                /\ \E other \in DOMAIN subscribed_categories :
                      /\ other # s.client_id
                      /\ other \in Keys(active_connections)
                      /\ subscribed_categories[other] # {}

\* what the handler of websocket makes of the inbound text data
IsRequest(data, type) == data.valid /\ data.type = type

\* C22: when the handler of a connection handles an inbound subscribe or
\* unsubscribe for a topic, only the subscription set of its client_id
\* changes (by that topic), nothing is registered or unregistered, and the
\* registry stays as it is when the client_id is not registered or the
\* topic is not a known one; the handler goes on.  No subscription set ever
\* holds a topic outside disasters, alerts, system.
C22_SubscribeFrame ==
    [][\A websocket \in 1..MaxSockets, data \in InboundTexts, ok \in BOOLEAN :
          WebsocketReceive(websocket, data, ok) =>
            LET client_id == websockets[websocket].client_id
                live == client_id \in DOMAIN subscribed_categories
                known == data.category \in KnownCategories
            IN  /\ active_connections' = active_connections
                /\ DOMAIN subscribed_categories' = DOMAIN subscribed_categories
                /\ \A k \in DOMAIN subscribed_categories \ {client_id} :
                      subscribed_categories'[k] = subscribed_categories[k]
                /\ websockets'[websocket].open
                /\ (IsRequest(data, "subscribe") /\ live /\ known) =>
                      subscribed_categories'[client_id] =
                         subscribed_categories[client_id] \cup {data.category}
                /\ (IsRequest(data, "unsubscribe") /\ live /\ known) =>
                      subscribed_categories'[client_id] =
                         subscribed_categories[client_id] \ {data.category}
                /\ ((IsRequest(data, "subscribe")
                        \/ IsRequest(data, "unsubscribe"))
                    /\ (~live \/ ~known)) =>
                      subscribed_categories' = subscribed_categories
                /\ \A k \in DOMAIN subscribed_categories' :
                      subscribed_categories'[k] \subseteq KnownCategories]_vars

\* a handler has answered a subscribe for a known topic while its client_id
\* was not registered (a failed send of a broadcast had disconnected it)
C22_Witness ==
    \E websocket \in DOMAIN websockets, c \in KnownCategories :
          /\ Count(websockets[websocket].inbox,
                   json_dumps([type |-> "subscription",
                               status |-> "subscribed",
                               category |-> c])) = 1
          /\ websockets[websocket].client_id \notin
                DOMAIN subscribed_categories
          /\ websockets[websocket].open

\* the websocket registered under client_id
Socket(ac, client_id) ==
    LET i == CHOOSE i \in DOMAIN ac : ac[i].client_id = client_id
    IN  ac[i].websocket

\* C23: connect(websocket, client_id) leaves client_id registered for that
\* websocket with an empty subscription set, whatever was registered under
\* client_id before; so when the handshake of the endpoint is over the
\* client is subscribed to the known topics it asked for in this handshake
\* and to nothing from an earlier connection.
C23_ConnectStartsEmpty ==
    [][\A client_id \in ClientIds, category_list \in CategoryLists,
          ok \in BOOLEAN :
          WebsocketConnect(client_id, category_list, ok) =>
            LET websocket == Len(websockets) + 1
                R1 == connect(Registry, websocket, client_id)
            IN  /\ client_id \in Keys(R1.ac)
                /\ Socket(R1.ac, client_id) = websocket
                /\ client_id \in DOMAIN R1.sc
                /\ R1.sc[client_id] = {}
                /\ Others(R1, client_id) = Others(Registry, client_id)
                /\ ok =>
                      /\ client_id \in Keys(active_connections')
                      /\ Socket(active_connections', client_id) = websocket
                      /\ subscribed_categories'[client_id] =
                            category_list \cap KnownCategories]_vars

\* a client_id that was registered and subscribed to alerts has connected
\* again asking for disasters: it is subscribed to disasters only
C23_Witness ==
    /\ Len(websockets) = 2
    /\ websockets[1].client_id = websockets[2].client_id
    /\ websockets[1].open
    /\ Count(websockets[1].inbox,
             json_dumps([type |-> "connection", status |-> "connected",
                         categories |-> {"alerts"}])) = 1
    /\ websockets[2].inbox =
          <<json_dumps([type |-> "connection", status |-> "connected",
                        categories |-> {"disasters"}])>>
    /\ inbound = 0
    /\ broadcasts = <<>>
    /\ websockets[2].client_id \in Keys(active_connections)
    /\ Socket(active_connections, websockets[2].client_id) = 2
    /\ subscribed_categories[websockets[2].client_id] = {"disasters"}

\* the places of the message of broadcast n in the inbox of a websocket
Places(websocket, n) ==
    {i \in DOMAIN websockets[websocket].inbox :
        websockets[websocket].inbox[i] = json_dumps(broadcasts[n].message)}

\* C24: when one coroutine publishes one message after the other, every
\* websocket that is sent both has the earlier message before the later one
\* in what it receives.
C24_PublishOrderKept ==
    \A websocket \in DOMAIN websockets :
        \A n1, n2 \in DOMAIN broadcasts :
            n1 < n2 =>
                \A i \in Places(websocket, n1), j \in Places(websocket, n2) :
                    i < j

\* a websocket has received the messages of two publishes for different
\* topics, its client being subscribed to both
C24_Witness ==
    /\ Len(broadcasts) = 2
    /\ broadcasts[1].category # broadcasts[2].category
    /\ \E websocket \in DOMAIN websockets :
          /\ Places(websocket, 1) # {}
          /\ Places(websocket, 2) # {}

\* C25: run_periodic_updates never ends with an exception; a cycle in which
\* the statistics or the publish raised goes through the handler into one
\* wait of an interval; the next cycle begins only out of such a wait, so
\* exactly one wait lies between two cycles; each cycle publishes at most
\* once, and only to the category "system"; and every cycle is followed by
\* the next.
C25_PeriodicPublisherSurvives ==
    /\ [](/\ periodic.pc # "terminated"
          /\ periodic.waits = periodic.cycle - 1
          /\ Len(periodic.published) <= periodic.cycle
          /\ \A i \in DOMAIN periodic.published :
                periodic.published[i] = "system")
    /\ [][/\ periodic.pc = "except" => periodic'.pc = "sleep_except"
          /\ periodic'.cycle # periodic.cycle =>
                /\ periodic.pc \in {"sleep", "sleep_except"}
                /\ periodic'.pc = "stats"
                /\ periodic'.cycle = periodic.cycle + 1
          /\ periodic.pc = "sleep_except" =>
                periodic'.cycle = periodic.cycle + 1]_periodic
    /\ \A c \in 1..MaxCycles : <>(periodic.cycle = c)

\* two cycles have failed, each followed by one wait, and the third cycle
\* has published and waits
C25_Witness ==
    /\ periodic.cycle = 3
    /\ periodic.waits = 2
    /\ periodic.pc = "sleep"
    /\ periodic.published = <<"system">>

\* C26: the handlers, the publishes and the periodic publisher are units of
\* one cooperative scheduler: a handler or a publish takes a step on the
\* registry, the websockets or the broadcasts only while the periodic
\* publisher is suspended in one of its awaits.
C26_OneCooperativeScheduler ==
    [][wsvars' # wsvars => Suspended(periodic)]_vars

\* the messages a caller can have passed to broadcast n
PassedMessages(n) == {NotifyMessage(kind, n) : kind \in NotifyKinds \cup {"notice"}}

\* C27: the dict a caller passes to a broadcast is the same after the call
\* as before, and every text the call sends is the text of one content,
\* stamped once with the time of the call.
C27_MessageNotMutated ==
    \A n \in DOMAIN broadcasts :
        LET b == broadcasts[n]
        IN  /\ b.message \in PassedMessages(n)
            /\ \A k \in DOMAIN b.sends :
                  ~b.sends[k].raised =>
                     Count(websockets[b.sends[k].websocket].inbox,
                           json_dumps(b.message)) = 1

\* What a broadcast does to its message: it writes timestamp, and category
\* when it has one, into the dict it was passed, once and before its first send;
\* everything else of the dict stays, and every text the call sends is the
\* text of that one stamped content.
StampedOnce ==
    [][\A n \in DOMAIN broadcasts' :
          LET a == broadcasts'[n]
          IN  /\ \E m \in PassedMessages(n) :
                    /\ \A k \in DOMAIN m : a.message[k] = m[k]
                    /\ DOMAIN a.message =
                          DOMAIN m \cup (IF a.category = ALL
                                         THEN {"timestamp"}
                                         ELSE {"timestamp", "category"})
              /\ a.category # ALL => a.message.category = a.category
              /\ n \in DOMAIN broadcasts =>
                    a.message = broadcasts[n].message
              /\ n \notin DOMAIN broadcasts => a.message.timestamp = now
              /\ \A k \in DOMAIN a.sends :
                    ~a.sends[k].raised =>
                       Count(websockets'[a.sends[k].websocket].inbox,
                             json_dumps(a.message)) = 1]_vars

\* the ids of the tasks created and neither deleted nor cleaned up
Kept == DOMAIN tasks_table \cup DOMAIN _fallback_tasks

\* what list_tasks(limit) is to return when it returns listed: at most limit
\* tasks, each the TaskInfo of a kept record, none twice, newest first, and
\* no kept record left out that is newer than one returned or that would
\* still fit within limit
ListsMostRecent(listed, limit) ==
    LET ids == {listed[i].task_id : i \in DOMAIN listed}
    IN  /\ Len(listed) <= limit
        /\ Cardinality(ids) = Len(listed)
        /\ \A i \in DOMAIN listed :
              /\ listed[i].task_id \in Kept
              /\ listed[i] = TaskInfoOf(Stored(Store, listed[i].task_id))
        /\ \A i, j \in DOMAIN listed :
              i < j => listed[i].created_at >= listed[j].created_at
        /\ \A k \in Kept \ ids :
              /\ Len(listed) = limit
              /\ \A i \in DOMAIN listed :
                    listed[i].created_at >= Stored(Store, k).created_at

\* C28: every call of list_tasks(limit) returns the limit most recently
\* created of the tasks that were created and not deleted, newest first,
\* whichever storage holds them.
C28_ListsMostRecent ==
    [][\A limit \in 0..MaxLimit, db_raises \in BOOLEAN :
          ListTasks(limit, db_raises) =>
             ListsMostRecent(last'.ret.tasks, limit)]_vars

\* the same as long as no durable call has raised
ListsMostRecentWhileHealthy ==
    [][\A limit \in 0..MaxLimit, db_raises \in BOOLEAN :
          (ListTasks(limit, db_raises) /\ ~durable_raised /\ ~db_raises) =>
             ListsMostRecent(last'.ret.tasks, limit)]_vars

\* the ids whose record get_task returns when its durable call does not raise
Reachable(S) == {id \in TaskIds : get_task(S, id, FALSE).ret # NoTask}

\* what a cleanup with max_age is to do at time t
CleansExactly(max_age, count) ==
    LET old == {id \in Kept : Stored(Store, id).created_at < now - max_age}
    IN  /\ DOMAIN tasks_table' \cup DOMAIN _fallback_tasks' = Kept \ old
        /\ count = Cardinality(old)

\* C29: a record that get_task returns goes on being returned until a step
\* of delete_task or cleanup_old_tasks removes it, whatever else happens
\* (create, cancel, a unit running, a switch to memory); and a cleanup
\* removes exactly the records created before now - max_age and returns
\* their number.
C29_OnlyCleanupAndDeleteRemove ==
    [][/\ last'.op \notin {"delete", "cleanup"} =>
             Reachable(Store) \subseteq
                Reachable([use_fallback |-> use_fallback',
                           fallback |-> _fallback_tasks',
                           table |-> tasks_table'])
       /\ \A max_age \in 0..MaxTime, db_raises \in BOOLEAN :
             CleanupOldTasks(max_age, db_raises) =>
                CleansExactly(max_age, last'.ret.count)]_vars

\* the same as long as no durable call has raised
OnlyCleanupAndDeleteRemoveWhileHealthy ==
    [][~durable_raised' =>
          /\ last'.op \notin {"delete", "cleanup"} =>
                Reachable(Store) \subseteq
                   Reachable([use_fallback |-> use_fallback',
                              fallback |-> _fallback_tasks',
                              table |-> tasks_table'])
          /\ \A max_age \in 0..MaxTime, db_raises \in BOOLEAN :
                CleanupOldTasks(max_age, db_raises) =>
                   CleansExactly(max_age, last'.ret.count)]_vars

\* C30: when the handler of an open connection handles an inbound ping whose
\* answer can be sent, {type: pong} is appended to what its client receives
\* and nothing else changes; when it handles a text that is not JSON, or a
\* message whose type is none of subscribe, unsubscribe, ping, nothing is
\* sent and nothing changes; in both cases the registry is as before and the
\* handler stays in its receive loop.
C30_PingAndUnknownInbound ==
    [][\A websocket \in 1..MaxSockets, data \in InboundTexts, ok \in BOOLEAN :
          WebsocketReceive(websocket, data, ok) =>
             /\ IsRequest(data, "ping") =>
                   /\ Registry' = Registry
                   /\ websockets'[websocket].open
                   /\ ok => websockets' =
                              [websockets EXCEPT ![websocket].inbox =
                                  Append(@, json_dumps([type |-> "pong"]))]
             /\ (~data.valid \/ IsRequest(data, "other")) =>
                   /\ Registry' = Registry
                   /\ websockets' = websockets]_vars

\* a registered and subscribed client has been answered a ping
C30_Witness ==
    \E websocket \in DOMAIN websockets :
        /\ Count(websockets[websocket].inbox, json_dumps([type |-> "pong"])) = 1
        /\ websockets[websocket].open
        /\ websockets[websocket].client_id \in DOMAIN subscribed_categories
        /\ subscribed_categories[websockets[websocket].client_id] # {}
        /\ inbound = 1

\* C31: a unit whose first step finds no record stored for its task ends
\* there by returning: it does not enter the try block (where the analysis
\* is called), the store is as it was, and no exception leaves it; and once
\* its done-callback has run its task_id is not in the running set.
C31_AbsentRecordAbortsSilently ==
    /\ [](\A u \in DOMAIN units :
            (/\ units[u].pc = "scheduled" /\ ~units[u].must_cancel
             /\ Stored(Store, units[u].task_id) = NoTask) =>
               \A f \in BOOLEAN :
                  LET enter == process_analysis_enter(Store, units[u], f)
                  IN  /\ ~enter.go
                      /\ enter.step.S = Store
                      /\ enter.step.unit.outcome = "returned"
                      /\ enter.step.unit.pc = "finished")
    /\ [][\A u \in DOMAIN units :
            (/\ UnitStep(u)
             /\ units[u].pc = "scheduled" /\ ~units[u].must_cancel
             /\ Stored(Store, units[u].task_id) = NoTask) =>
               /\ units'[u].outcome = "returned"
               /\ units'[u].pc = "finished"
               /\ tasks_table' = tasks_table
               /\ _fallback_tasks' = _fallback_tasks
               /\ use_fallback' = use_fallback]_vars
    /\ [][\A u \in DOMAIN units :
            DoneCallback(u) =>
               units[u].task_id \notin DOMAIN _running_tasks']_vars

\* a task was deleted before its unit ran: the unit has returned, its
\* done-callback has run and its entry is gone
C31_Witness ==
    \E u \in DOMAIN units :
        /\ units[u].pc = "closed"
        /\ units[u].outcome = "returned"
        /\ Stored(Store, units[u].task_id) = NoTask
        /\ units[u].task_id \notin DOMAIN _running_tasks
        /\ ~durable_raised

\* C32: a unit that was cancelled before it was done makes no store write in
\* any later step of its own and ends as cancelled; and a record that is
\* Failed with the cancellation message is Failed with that message in
\* every later state in which it is stored.
C32_CancelledUnitNeverWrites ==
    /\ [][\A u \in DOMAIN units :
            (UnitStep(u) /\ units[u].must_cancel) =>
               /\ Store' = Store
               /\ units'[u].outcome = "cancelled"]_vars
    /\ [][\A id \in TaskIds :
            LET r == Stored(Store, id)
                r2 == Stored(Store', id)
            IN  (/\ r # NoTask /\ r2 # NoTask
                 /\ r.status = FAILED /\ r.error_message = CANCEL_MESSAGE) =>
                   /\ r2.status = FAILED
                   /\ r2.error_message = CANCEL_MESSAGE]_vars

\* cancel returned true for a task whose unit had not run; the unit has
\* since been run by the event loop and has ended as cancelled, and the
\* record is Failed with the cancellation message
C32_Witness ==
    \E u \in DOMAIN units :
        LET r == Stored(Store, units[u].task_id)
        IN  /\ units[u].must_cancel
            /\ units[u].outcome = "cancelled"
            /\ units[u].pc = "closed"
            /\ r # NoTask
            /\ r.status = FAILED /\ r.error_message = CANCEL_MESSAGE

\* C33: as long as use_fallback is false nothing is stored in memory, and a
\* step puts a record into memory only by a create whose durable call
\* raised, which sets use_fallback in the same step.  So, use_fallback
\* being false, a get_task, update_task or delete_task whose durable call
\* raises answers None / False / False for every task id, stored durably or
\* not, and changes nothing.
C33_MemoryEmptyBeforeSwitch ==
    /\ [](~use_fallback =>
            /\ DOMAIN _fallback_tasks = {}
            /\ \A id \in TaskIds :
                  LET got == get_task(Store, id, TRUE)
                      upd == update_task(Store, id, [status |-> FAILED], now,
                                         TRUE)
                      del == delete_task(Store, id, TRUE)
                  IN  /\ got.ret = NoTask /\ ~got.exc /\ got.S = Store
                      /\ upd.ret = FALSE /\ ~upd.exc /\ upd.S = Store
                      /\ del.ret = FALSE /\ ~del.exc /\ del.S = Store)
    /\ [][DOMAIN _fallback_tasks' \ DOMAIN _fallback_tasks # {} =>
             /\ last'.op = "create" /\ last'.db_raised
             /\ use_fallback'
             /\ DOMAIN _fallback_tasks' \ DOMAIN _fallback_tasks = {last'.id}]_vars
    /\ [][(/\ ~use_fallback /\ last'.db_raised
           /\ last'.op \in {"get", "delete", "cancel"}) =>
             /\ Store' = Store
             /\ last'.op = "get" => last'.ret = [task |-> NoTask]
             /\ last'.op = "delete" => last'.ret = [ok |-> FALSE]]_vars

\* a get_task whose durable call raised has answered None for a task that
\* is stored durably, the store not having switched
C33_Witness ==
    /\ ~use_fallback
    /\ last.op = "get" /\ last.db_raised
    /\ last.id \in DOMAIN tasks_table
    /\ last.ret = [task |-> NoTask]

\* the (client_id, websocket) pairs that are registered
Registered(ac) == {ac[i] : i \in DOMAIN ac}

\* C34: when a broadcast is resumed after a send that failed, the disconnect
\* of its except branch removes only the connection whose send failed: every
\* other registered connection, the one a client has opened since under the
\* same client_id included, stays registered with its subscription set.
C34_FailedSendRemovesOnlyItsConnection ==
    [][\A n \in 1..MaxPublishes, ok \in BOOLEAN :
         (BroadcastResume(n, ok) /\ broadcasts[n].failed) =>
            LET b == broadcasts[n]
                failing == b.snapshot[b.i].websocket
            IN  \A e \in Registered(active_connections) :
                   e.websocket # failing =>
                      /\ e \in Registered(active_connections')
                      /\ e.client_id \in DOMAIN subscribed_categories =>
                           /\ e.client_id \in DOMAIN subscribed_categories'
                           /\ subscribed_categories'[e.client_id]
                                = subscribed_categories[e.client_id]]_vars

\* what holds of the except branch: it removes at most the client_id of the
\* failed send, whichever connection is registered under it
FailedSendRemovesItsClientId ==
    [][\A n \in 1..MaxPublishes, ok \in BOOLEAN :
         (BroadcastResume(n, ok) /\ broadcasts[n].failed) =>
            LET b == broadcasts[n]
                client_id == b.snapshot[b.i].client_id
            IN  /\ client_id \notin Keys(active_connections')
                /\ client_id \notin DOMAIN subscribed_categories'
                /\ \A e \in Registered(active_connections) :
                      e.client_id # client_id =>
                         e \in Registered(active_connections')]_vars

\* C35: every send_text a broadcast calls is on the websocket that is
\* registered under its client_id when the call is made; a connection that
\* was disconnected or replaced since the snapshot is skipped.
C35_SendsOnlyOnRegisteredConnection ==
    [][\A n \in DOMAIN broadcasts' :
         LET before == IF n \in DOMAIN broadcasts
                       THEN Len(broadcasts[n].sends) ELSE 0
             sends == broadcasts'[n].sends
         IN  \A k \in (before + 1)..Len(sends) :
                [client_id |-> sends[k].client_id,
                 websocket |-> sends[k].websocket]
                    \in Registered(active_connections')]_vars

\* what holds of a send of broadcast_to_category: its client_id has a
\* subscription set that holds the category when send_text is called
CategorySendIsToSubscribedClientId ==
    [][\A n \in DOMAIN broadcasts' :
         LET before == IF n \in DOMAIN broadcasts
                       THEN Len(broadcasts[n].sends) ELSE 0
             sends == broadcasts'[n].sends
         IN  \A k \in (before + 1)..Len(sends) :
                broadcasts'[n].category # ALL => sends[k].subscribed]_vars

\* C36: in every reachable state the client_ids of active_connections are
\* the client_ids of subscribed_categories, whatever the interleaving of
\* handshakes, inbound messages, disconnects and broadcasts.
C36_RegistryKeysAgree ==
    /\ Keys(active_connections) = DOMAIN subscribed_categories
    /\ \A i, j \in DOMAIN active_connections :
          active_connections[i].client_id = active_connections[j].client_id
             => i = j

\* a broadcast has dropped a client after a failed send, a handler has
\* disconnected its client, and another client is registered with a
\* subscription
C36_Witness ==
    /\ \E n \in DOMAIN broadcasts :
          /\ Ended(broadcasts[n])
          /\ \E k \in DOMAIN broadcasts[n].sends : broadcasts[n].sends[k].raised
    /\ \E w \in DOMAIN websockets : ~websockets[w].open
    /\ \E c \in Keys(active_connections) :
          /\ c \in DOMAIN subscribed_categories
          /\ subscribed_categories[c] # {}

\* ------------------------------------------------ the processor on its own
\* TaskProcessor as the object other code may use: besides
\* create_analysis_task, submit_task is called for the id of a task that
\* was created before (a task submitted again).  The event loop runs every
\* ready unit and every done-callback.
MaxUnits == 3

\* task_processor.submit_task(task_id)
SubmitTask(task_id) ==
    /\ Len(units) < MaxUnits
    /\ task_id \in 1..next_id
    /\ LET sub == submit_task(_running_tasks, units, task_id)
       IN  units' = sub.units /\ _running_tasks' = sub.running
    /\ Log("submit", task_id, Nothing, Idle)
    /\ UNCHANGED <<use_fallback, _fallback_tasks, tasks_table, next_id, now>>
    /\ UNCHANGED <<wsvars, periodic>>

\* create_analysis_task, within the number of units of the model
CreateAndSubmit(request, db_raises) ==
    /\ Len(units) < MaxUnits
    /\ CreateAnalysisTask(request, db_raises)

ProcessorNext ==
    \/ \E request \in Requests, f \in BOOLEAN : CreateAndSubmit(request, f)
    \/ \E task_id \in TaskIds : SubmitTask(task_id)
    \/ \E task_id \in TaskIds, f \in BOOLEAN : CancelAnalysisTask(task_id, f)
    \/ \E u \in 1..MaxUnits : UnitStep(u)
    \/ \E u \in 1..MaxUnits : DoneCallback(u)

\* asyncio runs a scheduled coroutine and a done-callback it has queued
ProcessorSpec ==
    /\ Init
    /\ [][ProcessorNext]_vars
    /\ WF_vars(\E u \in 1..MaxUnits : UnitStep(u))
    /\ WF_vars(\E u \in 1..MaxUnits : DoneCallback(u))

\* the units submitted under task_id
UnitsOf(task_id) == {u \in DOMAIN units : units[u].task_id = task_id}

\* unit u is the one _running_tasks tracks under its task_id
Tracked(u) ==
    /\ units[u].task_id \in DOMAIN _running_tasks
    /\ _running_tasks[units[u].task_id] = u

\* the unit has finished and its done-callback has run
Closed(u) == u \in DOMAIN units /\ units[u].pc = "closed"

\* C37: task_id is in _running_tasks from the submit until the unit has
\* finished: a submit puts it there, it is never removed while a unit
\* submitted under it is still running (the completion of one of two units
\* submitted under the same task_id does not remove the entry of the
\* other), and once a unit has finished its entry is removed in the end.
C37_TrackedWhileRunning ==
    /\ [][\A u \in DOMAIN units' \ DOMAIN units :
            units'[u].task_id \in DOMAIN _running_tasks'
            /\ _running_tasks'[units'[u].task_id] = u]_vars
    /\ [][\A id \in DOMAIN _running_tasks :
            id \notin DOMAIN _running_tasks' =>
               \A u \in UnitsOf(id) : Done(units[u])]_vars
    /\ \A u \in 1..MaxUnits :
          (u \in DOMAIN units /\ units[u].pc = "finished")
             ~> (Closed(u) /\ ~Tracked(u))

\* what holds: for a task_id submitted once, the unit is tracked while it
\* runs and until its done-callback has run, and then no longer
TrackedWhenSubmittedOnce ==
    /\ [](\A u \in DOMAIN units :
            UnitsOf(units[u].task_id) = {u} =>
               /\ units[u].pc # "closed" => Tracked(u)
               /\ units[u].pc = "closed" =>
                    units[u].task_id \notin DOMAIN _running_tasks)
    /\ \A u \in 1..MaxUnits :
          (u \in DOMAIN units /\ units[u].pc = "finished")
             ~> (Closed(u) /\ ~Tracked(u))

\* C38: in every reachable state every subscription set holds only topics
\* among disasters, alerts and system: a handshake subscribes its client to
\* the known topics of its list and to no other, and an inbound subscribe
\* for another topic changes no subscription set.
C38_OnlyKnownTopics ==
    /\ [](\A c \in DOMAIN subscribed_categories :
             subscribed_categories[c] \subseteq KnownCategories)
    /\ [][\A client_id \in ClientIds, category_list \in CategoryLists,
            ok \in BOOLEAN :
            (WebsocketConnect(client_id, category_list, ok)
             /\ client_id \in DOMAIN subscribed_categories') =>
               subscribed_categories'[client_id]
                  = category_list \cap KnownCategories]_vars
    /\ [][\A websocket \in 1..MaxSockets, data \in InboundTexts,
            ok \in BOOLEAN :
            (WebsocketReceive(websocket, data, ok)
             /\ IsRequest(data, "subscribe")
             /\ data.category \notin KnownCategories) =>
               /\ subscribed_categories' = subscribed_categories
               /\ websockets' = websockets]_vars

\* a client whose handshake asked for system and other is registered with
\* system alone
C38_Witness ==
    \E websocket \in DOMAIN websockets :
       LET client_id == websockets[websocket].client_id
       IN  /\ websockets[websocket].open
           /\ Count(websockets[websocket].inbox,
                    json_dumps([type |-> "connection",
                                status |-> "connected",
                                categories |-> {"system", "other"}])) = 1
           /\ [client_id |-> client_id, websocket |-> websocket]
                 \in Registered(active_connections)
           /\ client_id \in DOMAIN subscribed_categories
           /\ subscribed_categories[client_id] = {"system"}

====
